---- MODULE Spec2Model ----
(***************************************************************************)
(* A model of the crawl engine and the chunk/index pipeline of the scraper *)
(* repository: the RAG chunker (server/lib/chunk.ts), the RAG builder      *)
(* (server/lib/rag.ts), and the Flutter WebsiteScraper with its Semaphore  *)
(* and robots rules (lib/services/website_scraper.dart).                   *)
(*                                                                         *)
(* Each subsystem has its own specification over the shared variables; the *)
(* variables of the other subsystems stay at their idle values.            *)
(***************************************************************************)
EXTENDS Integers, Sequences, FiniteSets, TLC

\* ------------------------------------------------------------------ bounds
\* longest list of sentences a chunked text has
MaxSent == 3
\* longest sentence, in characters
MaxSentLen == 5
\* largest targetTokens / overlapTokens argument tried
MaxTarget == 3
MaxOverlap == 2
\* iterations of the packing loop the model follows before it stops looking
MaxIter == 5
\* longest input text of normalize, in characters
MaxText == 4
\* most files a job hands to buildRag
MaxFiles == 2
\* most Allow rules, and most Disallow rules, of a robots rule set
MaxRules == 2
\* workers of one crawl, transient answers of the web in one crawl, pages asked for
MaxConc == 2
MaxTransient == 1
MaxPagesCap == 3

\* ---------------------------------------------------------------- helpers
Max(a, b) == IF a >= b THEN a ELSE b
Min(a, b) == IF a <= b THEN a ELSE b

RECURSIVE SeqsUpTo(_, _)
\* all sequences over S of length at most n
SeqsUpTo(S, n) ==
  IF n = 0 THEN {<<>>}
  ELSE LET R == SeqsUpTo(S, n - 1)
       IN  R \cup {Append(s, x) : s \in {r \in R : Len(r) = n - 1}, x \in S}

VARIABLES
  \* ---- chunkTextToRag (one call)
  sentences,      \* the flat sentence list, each sentence given by its length in characters
  targetTokens,
  overlapTokens,
  i,              \* start index of the next chunk (0-based, as in the code)
  ord,            \* next ordinal
  chunks,         \* chunks emitted so far
  iters,          \* iterations of the while loop run so far
  lastIJ,         \* <<i, j, i'>> of the last iteration that did not end the loop, or <<>>
  cpc,            \* "idle" | "loop" | "returned"
  \* ---- normalize (applied once, then to its own result)
  input,          \* the input text, a sequence of characters
  once,           \* normalize(input)
  twice,          \* normalize(normalize(input))
  npc,            \* "idle" | "start" | "once" | "twice"
  \* ---- buildRag (one job)
  files,          \* the job's files, each given by the sentence list of its text
  fidx,           \* 1-based index of the file being processed
  cix,            \* how many chunks of the current file have been embedded
  points,         \* the points prepared for the current file
  bix,            \* how many batches of the current file have been upserted
  upserts,        \* the batches sent to upsertPoints, in order
  exported,       \* the records written to rag_export.jsonl, in order
  chunkCount,
  processed,
  progress,       \* the values given to reportProgress, in order
  handleOpen,     \* the JSONL file handle is open
  collExists,     \* the vector store holds the job's collection
  nGet,           \* existence checks made by ensureCollection
  nPut,           \* creation requests made by ensureCollection
  rpc,            \* "idle" | "queued" | "scrape" | "ensure" | "file" | "chunking" | "embed" | "upsert" |
                  \*   "done" | "failed"
  nEmbed,         \* calls of embed made so far
  nUpsert,        \* calls of upsertPoints made so far
  ragFailure,     \* <<>>, or what threw and the calls made until then (history)
  jobStatus,      \* the job row's status: "queued" | "running" | "completed" | "failed"
  jobError,       \* the job row's error
  jobLog,         \* the statuses the job row has been given, in order (history)
  jobType,        \* the job's type: "docs" | "repo"
  jobMaxPages,    \* the request's maxPages
  scraped,        \* files the scrape has collected so far
  jobProgress,    \* the job row's progress
  \* ---- _RobotsRules.isAllowed (one call)
  allow,          \* the rule set's Allow paths, each a sequence of characters
  disallow,       \* the rule set's Disallow paths
  path,           \* the path asked about
  allowed,        \* the answer
  bpc,            \* "idle" | "call" | "answered"
  \* ---- WebsiteScraper.scrape (one run of one instance)
  cfg,            \* the job: crawlerConfig, websiteConfig and sourceUrls
  mainPc,         \* "idle" | "sitemap" | "loop" | "wait" | "returned"
  queue,          \* the frontier, items [url, depth]
  seenQueued,
  processedUrls,  \* _processedUrls
  enqCalls,       \* per page, the calls of enqueue that named it (history, capped)
  appends,        \* per page, the times queue.add took its normalized URL (history, capped)
  results,
  processedCount,
  failedCount,
  sem,            \* globalSemaphore: [count, waitQueue]
  holders,        \* the workers that hold a permit of globalSemaphore (history)
  hostLocks,      \* _hostLocks: host -> [count, waitQueue]
  lockOwner,      \* host -> the worker that holds its lock, or 0 (history)
  lastAge,        \* host -> seconds since _lastRequest[host], up to delayMs
  robotsCache,    \* _robotsCache: host -> rules
  wpc,            \* per worker: "free" | "semwait" | "start" | "robots" | "hostwait" |
                  \*   "locked" | "delay" | "request" | "backoff" | "done"
  wurl,
  wdepth,
  wattempt,       \* `attempt` of _getWithRetry
  wtimer,         \* seconds left of the worker's Future.delayed
  cancelRequested,\* what isCancelled() answers
  cancelCaught,   \* the workers whose page request was in flight when cancelJob ran (history)
  cancelObserved, \* isCancelled() has answered true to this run (history)
  transientLeft,  \* transient answers and errors the web may still give
  fetchCount,     \* per page, the page fetches that sent their first request (history)
  since,          \* host -> seconds since the last page request attempt, up to delayMs
  shortGap,       \* an attempt started less than delayMs after another to its host (history)
  lastReport,     \* the last onProgress call: who, and what it still held (history)
  \* ensureCollection, called repeatedly for one collection name
  eInitial,       \* the collection existed before the first call (history)
  eExists,        \* the collection exists in the store
  ecalls,         \* per finished call: the GET status, the PUTs it issued, whether it threw
  \* one retrying fetch: _getWithRetry (website, GitHub) or fetchWithRetry (server)
  rFlavor,        \* "website" | "github" | "server"
  rCap,           \* maxRetries, or retries
  rAttempt,       \* `attempt`
  rRequests,      \* the requests sent so far (history)
  rLast,          \* the outcome of the last request
  rStatus,        \* the status code of the last response, 0 when there was none
  rRemaining,     \* its x-ratelimit-remaining header, "" when absent
  rWait,          \* the milliseconds of the last wait before a retry
  retPc,          \* "running" | "returned"
  rResult,        \* what the call returned: "response" | "text" | "null"
  \* _computeBackoffMs, called for attempt 1, 2, ... with one set of headers
  boFlavor,       \* "website" | "github"
  boHeaders,      \* [retryAfter, remaining, resetIn]
  boAttempt,      \* the attempt of the last call, 0 before the first
  boMs,           \* what the last call returned
  boPrev,         \* what the call before it returned
  \* one call of _isAllowedDomain
  dHost,          \* uri.host
  dAllowed,       \* config.allowedDomains
  dAccepted,      \* what the call returned
  dpc,            \* "call" | "returned"
  \* ScrapingService
  sStatus,        \* _currentJob.status
  sError,         \* _currentJob.errorMessage
  sCancel,        \* _cancelRequested
  sObserved,      \* startJob has read _cancelRequested as true after the scrape (history)
  sPc,            \* startJob: "idle" | "scraping" | "exporting" | "returned"
  sLog,           \* the values status has had, for the current job (history)
  sPages,         \* _currentJob.processedPages
  sRuns,          \* the calls of startJob so far
  \* one call of _findSitemapUrls
  smDocs,         \* sitemap URL -> the document served there
  smMax,          \* maxUrls: <<>> for null, else <<n>>
  smLines,        \* the lines of robots.txt: a sitemap URL, or "-" for any other line
  smPc,           \* "sitemap" | "robots" (the request awaited) | "returned" | "unknown"
  smTarget,       \* the sitemap URL requested
  smStack,        \* the loops that wait for a call of fetchAndParseSitemap, innermost last
  smCut,          \* frames below the kept ones have been left out of smStack
  discovered,     \* the list discovered
  smResult,       \* the list returned
  smBeat,         \* flips at every response to a sitemap request
  \* one Semaphore and the callers of acquire() and release()
  unMax,          \* maxCount
  unSem,          \* the semaphore: _currentCount and _waitQueue
  unHolders,      \* the callers whose acquire() has completed and who have not released
  \* one call of ProcessedPage._chunkText
  ctText,         \* text, a sequence of characters
  ctSize,         \* chunkSize
  ctOverlap,      \* overlap
  ctStart,        \* start
  ctChunks,       \* chunks, each as [from, to) offsets into text
  ctIters,        \* iterations of the while loop run so far
  ctPc            \* "loop" | "returned"

normVars == <<input, once, twice, npc>>
chunkVars == <<sentences, targetTokens, overlapTokens, i, ord, chunks, iters, lastIJ, cpc>>

ragVars == <<files, fidx, cix, points, bix, upserts, exported, chunkCount, processed,
             progress, handleOpen, collExists, nGet, nPut, rpc, nEmbed, nUpsert,
             ragFailure, jobStatus, jobError, jobLog, jobType, jobMaxPages, scraped,
             jobProgress>>

robotsVars == <<allow, disallow, path, allowed, bpc>>

crawlVars == <<cfg, mainPc, queue, seenQueued, processedUrls, enqCalls, appends,
               results,
               processedCount, failedCount, sem, holders, hostLocks, lockOwner, lastAge,
               robotsCache, wpc, wurl, wdepth, wattempt, wtimer, cancelRequested, cancelCaught,
               cancelObserved, transientLeft, fetchCount, since, shortGap, lastReport>>
ensureVars == <<eInitial, eExists, ecalls>>

retryVars == <<rFlavor, rCap, rAttempt, rRequests, rLast, rStatus, rRemaining, rWait, retPc,
               rResult>>

backoffVars == <<boFlavor, boHeaders, boAttempt, boMs, boPrev>>

domainVars == <<dHost, dAllowed, dAccepted, dpc>>

serviceVars == <<sStatus, sError, sCancel, sObserved, sPc, sLog, sPages, sRuns>>

sitemapVars == <<smDocs, smMax, smLines, smPc, smTarget, smStack, smCut, discovered, smResult,
                 smBeat>>

semUnitVars == <<unMax, unSem, unHolders>>

chunkTextVars == <<ctText, ctSize, ctOverlap, ctStart, ctChunks, ctIters, ctPc>>

lateVars == <<sitemapVars, semUnitVars, chunkTextVars>>

auxVars == <<ensureVars, retryVars, backoffVars, domainVars, serviceVars, lateVars>>
vars == <<chunkVars, normVars, ragVars, robotsVars, crawlVars, auxVars>>

\* ============================================================ chunker
estimateTokensFloor(len) == len \div 4
\* Math.ceil(text.length / 4), on the length of the text
estimateTokens(len) == (len + 3) \div 4

RECURSIVE Pack(_, _, _, _, _)
\* the inner for loop: the exclusive end index j of the chunk that starts at
\* the 0-based index the first call is given (n sentences are in buf so far)
Pack(ss, target, j, tokens, n) ==
  IF j >= Len(ss) THEN j
  ELSE LET t == estimateTokens(ss[j + 1])
       IN  IF n > 0 /\ tokens + t > target THEN j
           ELSE Pack(ss, target, j + 1, tokens + t, n + 1)

RECURSIVE ScanBack(_, _, _, _)
\* the overlap scan: k after `while (k >= 0 && backTokens < overlapTokens)`
ScanBack(ss, overlap, k, backTokens) ==
  IF k >= 0 /\ backTokens < overlap
  THEN ScanBack(ss, overlap, k - 1, backTokens + estimateTokens(ss[k + 1]))
  ELSE k

\* i = Math.max(0, j - Math.max(1, (j - 1) - k))
NextStart(ss, overlap, j) ==
  LET k == ScanBack(ss, overlap, j - 1, 0)
  IN  Max(0, j - Max(1, (j - 1) - k))

RECURSIVE SumLen(_, _, _)
\* length of buf.join(' ') for the sentences from..to-1 (0-based, exclusive end)
SumLen(ss, from, to) ==
  IF from >= to THEN 0
  ELSE ss[from + 1] + (IF from + 1 < to THEN 1 ELSE 0) + SumLen(ss, from + 1, to)

NextOrdSame(o) == o
\* ord++
NextOrd(o) == o + 1

\* the iterations followed for one text: a loop that moves forward by at least
\* one sentence per iteration ends within Len(ss) of them
IterCap(ss) == Max(MaxIter, Len(ss))

\* one iteration of `while (i < sentences.length)`
ChunkIter ==
  /\ cpc = "loop"
  /\ i < Len(sentences)
  /\ iters < IterCap(sentences)
  /\ LET j == Pack(sentences, targetTokens, i, 0, 0)
         textLen == SumLen(sentences, i, j)
         emit == textLen > 0
     IN  /\ chunks' = IF emit
                      THEN Append(chunks, [id |-> <<"name", ord>>, ord |-> ord,
                                           from |-> i, to |-> j])
                      ELSE chunks
         /\ ord' = IF emit THEN NextOrd(ord) ELSE ord
         /\ iters' = iters + 1
         /\ IF j >= Len(sentences)
            THEN /\ cpc' = "returned"
                 /\ UNCHANGED <<i, lastIJ>>
            ELSE /\ i' = NextStart(sentences, overlapTokens, j)
                 /\ lastIJ' = <<i, j, NextStart(sentences, overlapTokens, j)>>
                 /\ cpc' = "loop"
  /\ UNCHANGED <<sentences, targetTokens, overlapTokens>>

\* `if (!text) return []`, and the while condition failing
ChunkReturn ==
  /\ cpc = "loop"
  /\ i >= Len(sentences)
  /\ cpc' = "returned"
  /\ UNCHANGED <<sentences, targetTokens, overlapTokens, i, ord, chunks, iters, lastIJ>>

\* ============================================================ normalize
\* the characters JavaScript's \s matches, among those the model uses
IsSpace(c) == c \in {" ", "\t", "\r", "\n"}

RECURSIVE SplitFrom(_, _, _, _)
\* input.split(/\r?\n/): a "\n" ends the line, taking one "\r" before it
SplitFrom(s, idx, cur, acc) ==
  IF idx > Len(s) THEN Append(acc, cur)
  ELSE IF s[idx] = "\n"
       THEN LET line == IF Len(cur) > 0 /\ cur[Len(cur)] = "\r"
                        THEN SubSeq(cur, 1, Len(cur) - 1) ELSE cur
            IN  SplitFrom(s, idx + 1, <<>>, Append(acc, line))
       ELSE SplitFrom(s, idx + 1, Append(cur, s[idx]), acc)

SplitLines(s) == SplitFrom(s, 1, <<>>, <<>>)

RECURSIVE RunLen(_, _, _)
\* how many characters from position idx on belong to the set cs
RunLen(line, idx, cs) ==
  IF idx <= Len(line) /\ line[idx] \in cs THEN 1 + RunLen(line, idx + 1, cs) ELSE 0

\* /^\s*#{1,6}\s+/.test(line)
IsHeading(line) ==
  LET p == RunLen(line, 1, {" ", "\t", "\r", "\n"})
      h == RunLen(line, p + 1, {"#"})
  IN  /\ h >= 1
      /\ h <= 6
      /\ p + h + 1 <= Len(line)
      /\ IsSpace(line[p + h + 1])

RECURSIVE TrimEnd(_)
\* line.trimEnd()
TrimEnd(line) ==
  IF Len(line) > 0 /\ IsSpace(line[Len(line)])
  THEN TrimEnd(SubSeq(line, 1, Len(line) - 1)) ELSE line

RECURSIVE TrimStart(_)
TrimStart(line) ==
  IF Len(line) > 0 /\ IsSpace(line[1]) THEN TrimStart(Tail(line)) ELSE line

RECURSIVE CollapseFrom(_, _, _)
\* line.replace(/\s+/g, ' '): every run of white space becomes one space
CollapseFrom(line, idx, out) ==
  IF idx > Len(line) THEN out
  ELSE IF IsSpace(line[idx])
       THEN CollapseFrom(line, idx + RunLen(line, idx, {" ", "\t", "\r", "\n"}),
                         Append(out, " "))
       ELSE CollapseFrom(line, idx + 1, Append(out, line[idx]))

\* line.replace(/\s+/g, ' ').trim()
Collapsed(line) == TrimEnd(TrimStart(CollapseFrom(line, 1, <<>>)))

RECURSIVE NormLines(_, _, _)
\* the for loop over the lines: heading lines kept (trimmed at the end), the
\* others collapsed and dropped when empty
NormLines(lines, idx, out) ==
  IF idx > Len(lines) THEN out
  ELSE LET line == lines[idx]
       IN  IF IsHeading(line)
           THEN NormLines(lines, idx + 1, Append(out, TrimEnd(line)))
           ELSE LET c == Collapsed(line)
                IN  NormLines(lines, idx + 1, IF c # <<>> THEN Append(out, c) ELSE out)

RECURSIVE JoinLines(_, _)
\* out.join('\n')
JoinLines(lines, idx) ==
  IF idx > Len(lines) THEN <<>>
  ELSE lines[idx] \o (IF idx < Len(lines) THEN <<"\n">> ELSE <<>>) \o JoinLines(lines, idx + 1)

normalize(s) ==
  IF s = <<>> THEN <<>>
  ELSE JoinLines(NormLines(SplitLines(s), 1, <<>>), 1)

NormalizeOnce ==
  /\ npc = "start"
  /\ once' = normalize(input)
  /\ npc' = "once"
  /\ UNCHANGED <<input, twice>>

NormalizeTwice ==
  /\ npc = "once"
  /\ twice' = normalize(once)
  /\ npc' = "twice"
  /\ UNCHANGED <<input, once>>

\* ============================================================ buildRag
\* batch(points, 64) and chunkTextToRag(f.text, f.name, f.url, 800, 120)
BatchSize == 64
RagTarget == 800
RagOverlap == 120

batchWhole(arr, size) == IF Len(arr) = 0 THEN <<>> ELSE <<arr>>
RECURSIVE batch(_, _)
\* for (i = 0; i < arr.length; i += size) out.push(arr.slice(i, i + size))
batch(arr, size) ==
  IF Len(arr) = 0 THEN <<>>
  ELSE <<SubSeq(arr, 1, Min(size, Len(arr)))>>
       \o batch(SubSeq(arr, Min(size, Len(arr)) + 1, Len(arr)), size)

\* 70 + Math.min(29, Math.floor((processed / Math.max(1, files.length)) * 29))
RagProgress(done, nfiles) == 70 + Min(29, (done * 29) \div Max(1, nfiles))

\* id: `${job.id}:${c.ord}`
PointId(fileIdx, c) == <<"job", c.ord>>

\* the statuses the store gives the existence GET: 200 or 404 as the
\* collection exists or not, or an error
GetStatuses(exists) == {IF exists THEN 200 ELSE 404, 500}

IsAbsentLoose(status) == status # 200
\* `if (info.status !== 404) throw`
IsAbsent(status) == status = 404

\* ensureCollection(name, size, distance): what it leaves of the collection,
\* the creation requests it made and whether it threw
EnsureCollection(exists, status, putOk) ==
  IF status = 200 THEN [exists |-> exists, puts |-> 0, threw |-> FALSE]
  ELSE IF ~IsAbsent(status) THEN [exists |-> exists, puts |-> 0, threw |-> TRUE]
  ELSE [exists |-> exists \/ putOk, puts |-> 1, threw |-> ~putOk]

\* what threw, with the calls made until then
Thrown(kind, embeds, upsertCalls) == [kind |-> kind, nEmbed |-> embeds, nUpsert |-> upsertCalls]

OnThrowSkip(kind, at) == at
\* an error leaves the loops of buildRag: nothing in it catches
OnThrow(kind, at) == "failed"

\* Math.round(n / d) for n >= 0, d > 0
RoundDiv(n, d) == (2 * n + d) \div (2 * d)

\* crawlDocs: Math.min(70, Math.round((processed / Math.max(1, maxPages)) * 70))
DocsProgress(done, maxPages) == Min(70, RoundDiv(done * 70, Max(1, maxPages)))

\* scrape, type repo: Math.min(70, Math.round((all.length / Math.max(1, files.length)) * 70))
RepoProgress(all, found) == Min(70, RoundDiv(all * 70, Max(1, found)))

\* the worker's reportProgress callbacks: Math.max(lo, Math.min(hi, Math.round(p)))
ClampProgress(lo, hi, p) == Max(lo, Min(hi, p))

ScrapedProgressKept(p) == p
\* `updateJob(id, { progress: 70 })` after the scrape
ScrapedProgress(p) == 70

rowVars == <<jobType, jobMaxPages, scraped, jobProgress>>

\* the queued worker starts: the row goes to running with progress 0
JobStart ==
  /\ rpc = "queued"
  /\ jobStatus' = "running"
  /\ jobProgress' = 0
  /\ jobLog' = Append(jobLog, "running")
  /\ rpc' = "scrape"
  /\ UNCHANGED <<files, fidx, cix, points, bix, upserts, exported, chunkCount, processed,
                 progress, handleOpen, collExists, nGet, nPut, nEmbed, nUpsert, jobError,
                 ragFailure, jobType, jobMaxPages, scraped>>
  /\ UNCHANGED chunkVars

\* the scrape collects: crawlDocs one more page, or scrape one more
\* repository with some files, and reports
ScrapeReport ==
  /\ rpc = "scrape"
  /\ IF jobType = "docs"
     THEN /\ scraped < Len(files)
          /\ scraped' = scraped + 1
          /\ jobProgress' = ClampProgress(0, 70, DocsProgress(scraped + 1, jobMaxPages))
     ELSE \E found \in 0..(Len(files) - scraped) :
            /\ scraped' = scraped + found
            /\ jobProgress' = ClampProgress(0, 70, RepoProgress(scraped + found, found))
  /\ UNCHANGED <<files, fidx, cix, points, bix, upserts, exported, chunkCount, processed,
                 progress, handleOpen, collExists, nGet, nPut, rpc, nEmbed, nUpsert,
                 ragFailure, jobStatus, jobError, jobLog, jobType, jobMaxPages>>
  /\ UNCHANGED chunkVars

\* scrape returns the files, or throws
ScrapeEnd ==
  /\ rpc = "scrape"
  /\ \E scrapeOk \in BOOLEAN :
       IF scrapeOk
       THEN /\ scraped = Len(files)
            /\ jobProgress' = ScrapedProgress(jobProgress)
            /\ rpc' = "ensure"
            /\ UNCHANGED ragFailure
       ELSE /\ rpc' = "failed"
            /\ ragFailure' = Thrown("scrape", nEmbed, nUpsert)
            /\ UNCHANGED jobProgress
  /\ UNCHANGED <<files, fidx, cix, points, bix, upserts, exported, chunkCount, processed,
                 progress, handleOpen, collExists, nGet, nPut, nEmbed, nUpsert, jobStatus,
                 jobError, jobLog, jobType, jobMaxPages, scraped>>
  /\ UNCHANGED chunkVars

\* ensureCollection(cname, RAG_DIM, 'Cosine'), then the export handle is opened
RagEnsure ==
  /\ rpc = "ensure"
  /\ nGet' = nGet + 1
  /\ \E status \in GetStatuses(collExists), putOk \in BOOLEAN :
       LET e == EnsureCollection(collExists, status, putOk)
       IN  /\ collExists' = e.exists
           /\ nPut' = nPut + e.puts
           /\ rpc' = IF e.threw THEN "failed" ELSE "file"
           /\ handleOpen' = ~e.threw
           /\ ragFailure' = IF e.threw THEN Thrown("ensure", nEmbed, nUpsert) ELSE ragFailure
  /\ UNCHANGED rowVars
  /\ UNCHANGED <<files, fidx, cix, points, bix, upserts, exported, chunkCount, processed,
                 progress, nEmbed, nUpsert, jobStatus, jobError, jobLog>>
  /\ UNCHANGED chunkVars

\* `for (const f of files)`: the next file's text goes to chunkTextToRag, or
\* the loop ends and the handle is closed
RagNextFile ==
  /\ rpc = "file"
  /\ IF fidx < Len(files)
     THEN /\ fidx' = fidx + 1
          /\ sentences' = files[fidx + 1]
          /\ targetTokens' = RagTarget
          /\ overlapTokens' = RagOverlap
          /\ i' = 0
          /\ ord' = 0
          /\ chunks' = <<>>
          /\ iters' = 0
          /\ lastIJ' = <<>>
          /\ cpc' = "loop"
          /\ rpc' = "chunking"
          /\ UNCHANGED handleOpen
     ELSE /\ rpc' = "done"
          /\ handleOpen' = FALSE
          /\ UNCHANGED <<fidx>>
          /\ UNCHANGED chunkVars
  /\ UNCHANGED rowVars
  /\ UNCHANGED <<files, cix, points, bix, upserts, exported, chunkCount, processed,
                 progress, collExists, nGet, nPut, nEmbed, nUpsert, ragFailure, jobStatus,
                 jobError, jobLog>>

\* chunkTextToRag has returned the file's chunks
RagChunked ==
  /\ rpc = "chunking"
  /\ cpc = "returned"
  /\ rpc' = "embed"
  /\ cix' = 0
  /\ points' = <<>>
  /\ bix' = 0
  /\ UNCHANGED rowVars
  /\ UNCHANGED <<files, fidx, upserts, exported, chunkCount, processed, progress,
                 handleOpen, collExists, nGet, nPut, nEmbed, nUpsert, ragFailure, jobStatus,
                 jobError, jobLog>>
  /\ UNCHANGED chunkVars

\* one pass of `for (const c of chunks)`: embed, push the point, write the
\* JSONL line, count, report; after the last chunk the points are batched
RagChunk ==
  /\ rpc = "embed"
  /\ IF cix < Len(chunks)
     THEN LET c == chunks[cix + 1]
              pt == [id |-> PointId(fidx, c), name |-> fidx, ord |-> c.ord]
          IN  \E outcome \in {"ok", "embed", "write"} :
                /\ cix' = cix + 1
                /\ nEmbed' = nEmbed + 1
                /\ points' = IF outcome = "embed" THEN points ELSE Append(points, pt)
                /\ IF outcome = "ok"
                   THEN /\ exported' = Append(exported, pt)
                        /\ chunkCount' = chunkCount + 1
                        /\ processed' = processed + 1
                        /\ progress' = Append(progress, RagProgress(processed + 1, Len(files)))
                        /\ jobProgress' = ClampProgress(70, 99, RagProgress(processed + 1, Len(files)))
                        /\ rpc' = "embed"
                        /\ UNCHANGED <<handleOpen, ragFailure>>
                   ELSE \* the error leaves the loops; finally closes the handle
                        /\ rpc' = OnThrow(outcome, "embed")
                        /\ handleOpen' = FALSE
                        /\ ragFailure' = IF ragFailure = <<>>
                                         THEN Thrown(outcome, nEmbed + 1, nUpsert)
                                         ELSE ragFailure
                        /\ UNCHANGED <<exported, chunkCount, processed, progress, jobProgress>>
     ELSE /\ rpc' = "upsert"
          /\ UNCHANGED <<cix, points, exported, chunkCount, processed, progress, handleOpen,
                         nEmbed, ragFailure, jobProgress>>
  /\ UNCHANGED <<jobType, jobMaxPages, scraped>>
  /\ UNCHANGED <<files, fidx, bix, upserts, collExists, nGet, nPut, nUpsert, jobStatus,
                 jobError, jobLog>>
  /\ UNCHANGED chunkVars

\* `for (const b of batch(points, 64)) await upsertPoints(cname, b)`
RagUpsert ==
  /\ rpc = "upsert"
  /\ LET bs == batch(points, BatchSize)
     IN  IF bix < Len(bs)
         THEN \E ok \in BOOLEAN :
                /\ nUpsert' = nUpsert + 1
                /\ bix' = bix + 1
                /\ IF ok
                   THEN /\ upserts' = Append(upserts, bs[bix + 1])
                        /\ UNCHANGED <<rpc, handleOpen, ragFailure>>
                   ELSE /\ rpc' = OnThrow("upsert", "upsert")
                        /\ handleOpen' = FALSE
                        /\ ragFailure' = IF ragFailure = <<>>
                                         THEN Thrown("upsert", nEmbed, nUpsert + 1)
                                         ELSE ragFailure
                        /\ UNCHANGED upserts
         ELSE /\ rpc' = "file"
              /\ UNCHANGED <<upserts, bix, handleOpen, nUpsert, ragFailure>>
  /\ UNCHANGED rowVars
  /\ UNCHANGED <<files, fidx, cix, points, exported, chunkCount, processed, progress,
                 collExists, nGet, nPut, nEmbed, jobStatus, jobError, jobLog>>
  /\ UNCHANGED chunkVars

\* the worker's last step: completed after buildRag returned, failed with
\* the error's message after anything threw
JobEnd ==
  /\ rpc \in {"done", "failed"}
  /\ jobStatus = "running"
  /\ jobStatus' = IF rpc = "done" THEN "completed" ELSE "failed"
  /\ jobLog' = Append(jobLog, jobStatus')
  /\ jobError' = IF rpc = "done" THEN jobError ELSE ragFailure.kind
  /\ jobProgress' = IF rpc = "done" THEN 100 ELSE jobProgress
  /\ UNCHANGED <<jobType, jobMaxPages, scraped>>
  /\ UNCHANGED <<files, fidx, cix, points, bix, upserts, exported, chunkCount, processed,
                 progress, handleOpen, collExists, nGet, nPut, rpc, nEmbed, nUpsert,
                 ragFailure>>
  /\ UNCHANGED chunkVars

\* ============================================================ robots rules
\* norm.startsWith(rule)
StartsWith(s, prefix) ==
  Len(prefix) <= Len(s) /\ SubSeq(s, 1, Len(prefix)) = prefix

RECURSIVE BestAllowLen(_, _, _, _)
\* `for (final a in allow)`: an empty rule counts as a match of length 0
BestAllowLen(rules, norm, idx, best) ==
  IF idx > Len(rules) THEN best
  ELSE LET a == rules[idx]
       IN  IF a = <<>>
           THEN BestAllowLen(rules, norm, idx + 1, IF best < 0 THEN 0 ELSE best)
           ELSE IF StartsWith(norm, a) /\ Len(a) > best
                THEN BestAllowLen(rules, norm, idx + 1, Len(a))
                ELSE BestAllowLen(rules, norm, idx + 1, best)

RECURSIVE BestDisallowLen(_, _, _, _)
\* `for (final d in disallow)`: an empty rule is skipped
BestDisallowLen(rules, norm, idx, best) ==
  IF idx > Len(rules) THEN best
  ELSE LET d == rules[idx]
       IN  IF d = <<>>
           THEN BestDisallowLen(rules, norm, idx + 1, best)
           ELSE IF StartsWith(norm, d) /\ Len(d) > best
                THEN BestDisallowLen(rules, norm, idx + 1, Len(d))
                ELSE BestDisallowLen(rules, norm, idx + 1, best)

DecideStrict(bestAllowLen, bestDisallowLen) ==
  IF bestDisallowLen < 0 /\ bestAllowLen < 0 THEN TRUE
  ELSE bestAllowLen > bestDisallowLen
\* the three returns that end isAllowed
Decide(bestAllowLen, bestDisallowLen) ==
  IF bestDisallowLen < 0 /\ bestAllowLen < 0 THEN TRUE
  ELSE IF bestAllowLen >= bestDisallowLen THEN TRUE
  ELSE FALSE

\* String norm = path.isEmpty ? '/' : path
NormPath(p) == IF p = <<>> THEN <<"/">> ELSE p

isAllowed(allowRules, disallowRules, p) ==
  Decide(BestAllowLen(allowRules, NormPath(p), 1, -1),
         BestDisallowLen(disallowRules, NormPath(p), 1, -1))

\* rules.isAllowed(path)
IsAllowedCall ==
  /\ bpc = "call"
  /\ allowed' = isAllowed(allow, disallow, path)
  /\ bpc' = "answered"
  /\ UNCHANGED <<allow, disallow, path>>

\* ============================================================ WebsiteScraper
\* ---- the web one run crawls: pages, their hosts, paths and anchors.  A URL
\* is <<page, fragment>>; the page stands for scheme, host, path and query.
HostA == <<"a", ".", "t">>
HostB == <<"b", ".", "t">>
HostX == <<"x", ".", "t">>
Pages == {"p1", "p2", "p3", "p4", "px"}
Hosts == {HostA, HostB, HostX}

HostOf(page) ==
  CASE page = "p3" -> HostB
    [] page = "px" -> HostX
    [] OTHER -> HostA

PathOf(page) ==
  CASE page = "p1" -> <<>>
    [] page = "p2" -> <<"/", "a">>
    [] page = "p3" -> <<"/", "b">>
    [] page = "p4" -> <<"/", "a", "/", "b">>
    [] OTHER -> <<"/">>

\* the href values of a page's anchors, resolved against the page
LinksOf(page) ==
  CASE page = "p1" -> << <<"p3", "f">>, <<"p2", "">>, <<"px", "">>, <<"mailto", "">> >>
    [] page = "p2" -> << <<"p3", "">>, <<"p4", "">>, <<"p1", "f">> >>
    [] page = "p3" -> << <<"p2", "f">> >>
    [] OTHER -> <<>>

\* what /robots.txt of a host parses to, and what the sitemaps list
RobotsTxt(host) ==
  IF host = HostA
  THEN [allow |-> <<>>, disallow |-> << <<"/", "a", "/", "b">> >>]
  ELSE [allow |-> <<>>, disallow |-> << <<>> >>]
SitemapUrls == << <<"p3", "">>, <<"p2", "f">>, <<"p4", "">> >>

NoUrl == <<>>
\* Uri.parse(url) with an http or https scheme
IsHttp(url) == url[1] \in Pages

NormalizeUrlKeepFragment(url) == IF IsHttp(url) THEN url ELSE NoUrl
\* uri.replace(fragment: '').toString(), or null
NormalizeUrl(url) == IF IsHttp(url) THEN <<url[1], "">> ELSE NoUrl

EndsWith(s, suffix) ==
  Len(suffix) <= Len(s) /\ SubSeq(s, Len(s) - Len(suffix) + 1, Len(s)) = suffix

DomainMatchesSuffix(domain, allowedDomain) ==
  domain = allowedDomain \/ EndsWith(domain, allowedDomain)
\* domain == allowedDomain || domain.endsWith('.$allowedDomain')
DomainMatches(domain, allowedDomain) ==
  domain = allowedDomain \/ EndsWith(domain, <<".">> \o allowedDomain)

\* _isAllowedDomain on the host of the URL
HostAllowed(domain, allowedDomains) ==
  IF allowedDomains = <<>> THEN TRUE
  ELSE \E k \in 1..Len(allowedDomains) : DomainMatches(domain, allowedDomains[k])

IsAllowedDomain(url, allowedDomains) == HostAllowed(HostOf(url[1]), allowedDomains)

\* path == normalizedBase || path.startsWith('$normalizedBase/')
IsAllowedPath(url, basePath) ==
  IF basePath = <<>> THEN TRUE
  ELSE LET normalizedBase == IF basePath[1] = "/" THEN basePath ELSE <<"/">> \o basePath
           p == NormPath(PathOf(url[1]))
       IN  p = normalizedBase \/ StartsWith(p, normalizedBase \o <<"/">>)

\* ---- Semaphore
Semaphore(maxCount) == [count |-> maxCount, waitQueue |-> <<>>]

CanTakeOffByOne(count) == count >= 0
\* `if (_currentCount > 0)`
CanTake(count) == count > 0

SemAcquireKeepsCount(s, w) ==
  IF CanTake(s.count)
  THEN [sem |-> s, granted |-> TRUE]
  ELSE [sem |-> [s EXCEPT !.waitQueue = Append(@, w)], granted |-> FALSE]
\* acquire() by worker w: the permit is taken, or w waits in the queue
SemAcquire(s, w) ==
  IF CanTake(s.count)
  THEN [sem |-> [s EXCEPT !.count = @ - 1], granted |-> TRUE]
  ELSE [sem |-> [s EXCEPT !.waitQueue = Append(@, w)], granted |-> FALSE]

SemReleaseForgets(s) ==
  IF s.waitQueue # <<>>
  THEN [sem |-> [s EXCEPT !.waitQueue = Tail(@)], woken |-> 0]
  ELSE [sem |-> [s EXCEPT !.count = @ + 1], woken |-> 0]
\* release(): the permit goes to the first waiter (woken), or back to the count
SemRelease(s) ==
  IF s.waitQueue # <<>>
  THEN [sem |-> [s EXCEPT !.waitQueue = Tail(@)], woken |-> Head(s.waitQueue)]
  ELSE [sem |-> [s EXCEPT !.count = @ + 1], woken |-> 0]

\* ---- retry backoff
MaxRetries == 3

RECURSIVE Pow2(_)
Pow2(n) == IF n <= 0 THEN 1 ELSE 2 * Pow2(n - 1)

Clamp(x, lo, hi) == IF x < lo THEN lo ELSE IF x > hi THEN hi ELSE x

\* _computeBackoffMs(attempt, headers); retryAfter is <<>> when the header is
\* absent or does not parse, else <<seconds>>
RetryAfterMsUnclamped(seconds) == seconds * 1000
\* `ms.clamp(1000, 120000)`
RetryAfterMs(seconds) == Clamp(seconds * 1000, 1000, 120000)

JitterHalf(base) == base \div 2
\* `(base * 0.3).toInt()`
Jitter(base) == (base * 3) \div 10

\* the exponential path
ExponentialMs(attempt) ==
  LET base == 500 * Pow2(attempt - 1)
      ms == base + Jitter(base) * ((attempt % 5) + 1)
  IN  Clamp(ms, 500, 15000)

ComputeBackoffMs(attempt, retryAfter) ==
  IF retryAfter # <<>>
  THEN RetryAfterMs(retryAfter[1])
  ELSE ExponentialMs(attempt)

\* _computeBackoffMs of the GitHub scraper: remaining is the text of
\* x-ratelimit-remaining ("" when absent), resetIn is <<>> when
\* x-ratelimit-reset is absent or does not parse, else <<resetEpoch - nowSec>>
GithubComputeBackoffMs(attempt, retryAfter, remaining, resetIn) ==
  IF retryAfter # <<>>
  THEN RetryAfterMs(retryAfter[1])
  ELSE IF remaining = "0" /\ resetIn # <<>> /\ resetIn[1] * 1000 > 0
  THEN Clamp(resetIn[1] * 1000, 1000, 300000)
  ELSE ExponentialMs(attempt)

\* the model's clock counts seconds: a wait of ms milliseconds, rounded up
Units(ms) == (ms + 999) \div 1000


\* ---- the frontier
Put(f, k, v) == [x \in DOMAIN f \cup {k} |-> IF x = k THEN v ELSE f[x]]

NotSeenEver(normalized, seen) == TRUE
\* `!seenQueued.contains(normalized)`
NotSeen(normalized, seen) == normalized \notin seen

\* enqueue(url, depth) on the frontier fr = [queue, seen, calls], with the
\* set of processed URLs as it is at the call; calls counts the calls per page
Enqueue(fr, fetched, url, depth) ==
  LET normalized == NormalizeUrl(url)
      counted == IF IsHttp(url)
                 THEN [fr EXCEPT !.calls[url[1]] = Min(@ + 1, 4)]
                 ELSE fr
  IN  IF normalized = NoUrl THEN counted
      ELSE IF /\ IsAllowedDomain(normalized, cfg.allowedDomains)
              /\ IsAllowedPath(normalized, cfg.basePath)
              /\ NotSeen(normalized, counted.seen)
              /\ normalized \notin fetched
           THEN [counted EXCEPT !.queue = Append(@, [url |-> normalized, depth |-> depth]),
                                !.seen = @ \cup {normalized},
                                !.apps[normalized[1]] = Min(@ + 1, 4)]
           ELSE counted

RECURSIVE EnqueueAll(_, _, _, _)
EnqueueAll(fr, fetched, urls, depth) ==
  IF urls = <<>> THEN fr
  ELSE EnqueueAll(Enqueue(fr, fetched, Head(urls), depth), fetched, Tail(urls), depth)

RECURSIVE Dedupe(_, _)
\* LinkedHashSet.from(list).toList()
Dedupe(list, out) ==
  IF list = <<>> THEN out
  ELSE Dedupe(Tail(list),
              IF \E k \in 1..Len(out) : out[k] = Head(list) THEN out ELSE Append(out, Head(list)))

\* _extractLinksFromDocument: http(s) anchors, fragment dropped, in the
\* allowed domains and path, deduplicated (the cap of 200 is never reached)
ExtractLinks(page) ==
  LET stripped == [k \in 1..Len(LinksOf(page)) |->
                     IF IsHttp(LinksOf(page)[k]) THEN <<LinksOf(page)[k][1], "">> ELSE NoUrl]
      kept == SelectSeq(stripped, LAMBDA u :
                 /\ u # NoUrl
                 /\ IsAllowedDomain(u, cfg.allowedDomains)
                 /\ IsAllowedPath(u, cfg.basePath))
  IN  Dedupe(kept, <<>>)

Frontier == [queue |-> queue, seen |-> seenQueued, calls |-> enqCalls, apps |-> appends]

\* ---- workers
Slots == 1..Max(1, MaxConc)

\* no continuation is ready to run: timers, responses and user input are
\* events, and an event is handled only when the microtask queue is empty
Quiet ==
  /\ mainPc # "loop"
  /\ \A w \in Slots : wpc[w] \notin {"start", "locked"}
  /\ ~(mainPc = "wait" /\ \A w \in Slots : wpc[w] \in {"free", "done"})

DelayUnits == Units(cfg.delayMs)

\* uri.host and `uri.path.isEmpty ? '/' : uri.path` of a worker's URL
WHost(w) == HostOf(wurl[w][1])
WPath(w) == NormPath(PathOf(wurl[w][1]))

ReleaseOnSuccessOnly(exitPath) == exitPath = "success"
\* `finally { globalSemaphore.release(); onProgress(...) }`: on every path
ReleaseOn(exitPath) == TRUE

CountsAsFailedFetchOnly(exitPath) == exitPath \notin {"success", "robotsDisallowed"}
\* `failedCount++` on every path of the callback but the one that adds the page
CountsAsFailed(exitPath) == exitPath # "success"

\* the state of the workers after worker w is done, a waiter for the
\* semaphore starts, and a waiter for a host lock has the lock
DonePc(w, semWoken, lockWoken) ==
  [x \in Slots |->
     IF x = w THEN "done"
     ELSE IF x = semWoken THEN "start"
     ELSE IF x = lockWoken THEN "locked"
     ELSE wpc[x]]

\* the rest of the worker's callback once its page result (or its early
\* return) is known: counters, link expansion, then the finally block
WorkerExit(w, exitPath, lockWoken) ==
  LET success == exitPath = "success"
      expand == success /\ ~cancelRequested /\ wdepth[w] < cfg.maxDepth
      fr == IF expand
            THEN EnqueueAll(Frontier, processedUrls, ExtractLinks(wurl[w][1]), wdepth[w] + 1)
            ELSE Frontier
      rel == IF ReleaseOn(exitPath) THEN SemRelease(sem) ELSE [sem |-> sem, woken |-> 0]
  IN  /\ results' = IF success THEN Append(results, wurl[w]) ELSE results
      /\ processedCount' = IF success THEN processedCount + 1 ELSE processedCount
      /\ failedCount' = IF CountsAsFailed(exitPath) THEN failedCount + 1 ELSE failedCount
      /\ cancelObserved' = (cancelObserved \/ (success /\ cancelRequested))
      /\ queue' = fr.queue
      /\ seenQueued' = fr.seen
      /\ enqCalls' = fr.calls
      /\ appends' = fr.apps
      /\ sem' = rel.sem
      /\ holders' = IF ReleaseOn(exitPath)
                    THEN (holders \ {w}) \cup (IF rel.woken = 0 THEN {} ELSE {rel.woken})
                    ELSE holders
      /\ wpc' = DonePc(w, rel.woken, lockWoken)
      /\ lastReport' = [slot |-> w,
                        exit |-> exitPath,
                        permit |-> w \in holders',
                        hostLock |-> \E h \in DOMAIN lockOwner' : lockOwner'[h] = w]

\* an exit before the host lock is taken
ExitNow(w, exitPath) ==
  /\ UNCHANGED <<processedUrls, hostLocks, lockOwner>>
  /\ WorkerExit(w, exitPath, 0)

HostLockFresh(locks, host) == Semaphore(1)
\* `_hostLocks.putIfAbsent(domain, () => Semaphore(1))`
HostLock(locks, host) == IF host \in DOMAIN locks THEN locks[host] ELSE Semaphore(1)

\* _scrapePage up to `await hostLock.acquire()`
EnterPage(w) ==
  IF wurl[w] \in processedUrls
  THEN ExitNow(w, "skipped")
  ELSE LET lock == HostLock(hostLocks, WHost(w))
           a == SemAcquire(lock, w)
       IN  /\ processedUrls' = processedUrls \cup {wurl[w]}
           /\ hostLocks' = Put(hostLocks, WHost(w), a.sem)
           /\ lockOwner' = IF a.granted THEN Put(lockOwner, WHost(w), w) ELSE lockOwner
           /\ wpc' = [wpc EXCEPT ![w] = IF a.granted THEN "locked" ELSE "hostwait"]
           /\ UNCHANGED <<results, processedCount, failedCount, cancelObserved, queue,
                          seenQueued, enqCalls, appends, sem, holders, lastReport>>

\* the worker goes on after the robots decision
AfterRobots(w, rules) ==
  IF isAllowed(rules.allow, rules.disallow, WPath(w))
  THEN EnterPage(w)
  ELSE ExitNow(w, "robotsDisallowed")

DisallowAll == [allow |-> <<>>, disallow |-> << <<"/">> >>]
\* _RobotsRules.allowAll()
AllowAll == [allow |-> << <<>> >>, disallow |-> <<>>]

\* the callback given to acquire().then(...) starts
WorkerStart(w) ==
  /\ wpc[w] = "start"
  /\ IF ~cfg.respectRobots
     THEN EnterPage(w)
     ELSE IF WHost(w) \in DOMAIN robotsCache
     THEN AfterRobots(w, robotsCache[WHost(w)])
     ELSE /\ wpc' = [wpc EXCEPT ![w] = "robots"]
          /\ UNCHANGED <<processedUrls, hostLocks, lockOwner, results, processedCount,
                         failedCount, cancelObserved, queue, seenQueued, enqCalls, appends, sem,
                         holders, lastReport>>
  /\ UNCHANGED <<cfg, mainPc, lastAge, robotsCache, wurl, wdepth, wattempt, wtimer,
                 cancelRequested, cancelCaught, transientLeft, fetchCount, since, shortGap>>

\* the response to GET /robots.txt: parsed and cached, or allow-all cached
RobotsResponse(w) ==
  /\ wpc[w] = "robots"
  /\ Quiet
  /\ \E ok \in BOOLEAN :
       LET rules == IF ok THEN RobotsTxt(WHost(w)) ELSE AllowAll
       IN  /\ robotsCache' = Put(robotsCache, WHost(w), rules)
           /\ AfterRobots(w, rules)
  /\ UNCHANGED <<cfg, mainPc, lastAge, wurl, wdepth, wattempt, wtimer, cancelRequested, cancelCaught,
                 transientLeft, fetchCount, since, shortGap>>

\* an HTTP request attempt of worker w starts now
AttemptStarts(w, attempt) ==
  /\ wattempt' = [wattempt EXCEPT ![w] = attempt]
  /\ wpc' = [wpc EXCEPT ![w] = "request"]
  /\ fetchCount' = IF attempt = 1
                   THEN [fetchCount EXCEPT ![wurl[w][1]] = @ + 1]
                   ELSE fetchCount
  /\ shortGap' = (shortGap \/ (WHost(w) \in DOMAIN since /\ since[WHost(w)] < DelayUnits))
  /\ since' = Put(since, WHost(w), 0)

\* with the host lock: wait out the rest of delayMs, or request at once
LockedStep(w) ==
  /\ wpc[w] = "locked"
  /\ IF WHost(w) \in DOMAIN lastAge /\ DelayUnits - lastAge[WHost(w)] > 0
     THEN /\ wpc' = [wpc EXCEPT ![w] = "delay"]
          /\ wtimer' = [wtimer EXCEPT ![w] = DelayUnits - lastAge[WHost(w)]]
          /\ UNCHANGED <<wattempt, fetchCount, since, shortGap>>
     ELSE /\ AttemptStarts(w, 1)
          /\ UNCHANGED wtimer
  /\ UNCHANGED <<cfg, mainPc, queue, seenQueued, processedUrls, enqCalls, appends, results,
                 processedCount, failedCount, sem, holders, hostLocks, lockOwner, lastAge,
                 robotsCache, wurl, wdepth, cancelRequested, cancelCaught, cancelObserved, transientLeft,
                 lastReport>>

\* Future.delayed(remaining) completes
DelayWake(w) ==
  /\ wpc[w] = "delay"
  /\ wtimer[w] = 0
  /\ Quiet
  /\ AttemptStarts(w, 1)
  /\ UNCHANGED <<cfg, mainPc, queue, seenQueued, processedUrls, enqCalls, appends, results,
                 processedCount, failedCount, sem, holders, hostLocks, lockOwner, lastAge,
                 robotsCache, wurl, wdepth, wtimer, cancelRequested, cancelCaught, cancelObserved,
                 transientLeft, lastReport>>

\* Future.delayed(waitMs) completes in _getWithRetry: the next attempt
BackoffWake(w) ==
  /\ wpc[w] = "backoff"
  /\ wtimer[w] = 0
  /\ Quiet
  /\ AttemptStarts(w, wattempt[w] + 1)
  /\ UNCHANGED <<cfg, mainPc, queue, seenQueued, processedUrls, enqCalls, appends, results,
                 processedCount, failedCount, sem, holders, hostLocks, lockOwner, lastAge,
                 robotsCache, wurl, wdepth, wtimer, cancelRequested, cancelCaught, cancelObserved,
                 transientLeft, lastReport>>

Outcomes == {"ok", "short", "status", "transient", "error"}

\* the request of worker w ends: a retry after a backoff, or the page result,
\* the finally block of _scrapePage and the rest of the worker's callback
Response(w) ==
  /\ wpc[w] = "request"
  /\ Quiet
  /\ \E outcome \in Outcomes, retryAfter \in {<<>>, <<1>>} :
       /\ outcome \in {"transient", "error"} => transientLeft > 0
       /\ outcome # "transient" => retryAfter = <<>>
       /\ transientLeft' = IF outcome \in {"transient", "error"}
                           THEN transientLeft - 1 ELSE transientLeft
       /\ IF outcome \in {"transient", "error"} /\ wattempt[w] <= MaxRetries
          THEN /\ wpc' = [wpc EXCEPT ![w] = "backoff"]
               /\ wtimer' = [wtimer EXCEPT ![w] = Units(ComputeBackoffMs(wattempt[w], retryAfter))]
               /\ UNCHANGED <<processedUrls, hostLocks, lockOwner, lastAge, results,
                              processedCount, failedCount, cancelObserved, queue, seenQueued,
                              enqCalls, appends, sem, holders, lastReport>>
          ELSE LET rel == SemRelease(hostLocks[WHost(w)])
               IN  /\ lastAge' = Put(lastAge, WHost(w), 0)
                   /\ hostLocks' = Put(hostLocks, WHost(w), rel.sem)
                   /\ lockOwner' = Put(lockOwner, WHost(w), rel.woken)
                   /\ WorkerExit(w, CASE outcome = "ok" -> "success"
                                      [] outcome = "short" -> "short"
                                      [] OTHER -> "failed", rel.woken)
                   /\ UNCHANGED <<processedUrls, wtimer>>
  /\ UNCHANGED <<cfg, mainPc, robotsCache, wurl, wdepth, wattempt, cancelRequested, cancelCaught,
                 fetchCount, since, shortGap>>

\* a second passes
Tick ==
  /\ Quiet
  /\ mainPc \in {"sitemap", "wait"}
  /\ \A w \in Slots : wpc[w] \in {"delay", "backoff"} => wtimer[w] > 0
  /\ wtimer' = [w \in Slots |-> IF wpc[w] \in {"delay", "backoff"} THEN wtimer[w] - 1 ELSE wtimer[w]]
  /\ lastAge' = [h \in DOMAIN lastAge |-> Min(lastAge[h] + 1, DelayUnits)]
  /\ since' = [h \in DOMAIN since |-> Min(since[h] + 1, DelayUnits)]
  /\ <<wtimer', lastAge', since'>> # <<wtimer, lastAge, since>>
  /\ UNCHANGED <<cfg, mainPc, queue, seenQueued, processedUrls, enqCalls, appends, results,
                 processedCount, failedCount, sem, holders, hostLocks, lockOwner, robotsCache,
                 wpc, wurl, wdepth, wattempt, cancelRequested, cancelCaught, cancelObserved, transientLeft,
                 fetchCount, shortGap, lastReport>>

\* ---- validate(job), called on the scraper before scrape(job): the robots
\* rules of the first source URL's host are loaded through _loadRobotsRules
Validate ==
  /\ mainPc = "idle"
  /\ cfg.validateFirst
  /\ cfg.seeds # <<>>
  /\ HostOf(cfg.seeds[1][1]) \notin DOMAIN robotsCache
  /\ \E ok \in BOOLEAN :
       robotsCache' = Put(robotsCache, HostOf(cfg.seeds[1][1]),
                          IF ok THEN RobotsTxt(HostOf(cfg.seeds[1][1])) ELSE AllowAll)
  /\ UNCHANGED <<cfg, mainPc, queue, seenQueued, processedUrls, enqCalls, appends, results,
                 processedCount, failedCount, sem, holders, hostLocks, lockOwner, lastAge,
                 wpc, wurl, wdepth, wattempt, wtimer, cancelRequested, cancelCaught, cancelObserved,
                 transientLeft, fetchCount, since, shortGap, lastReport>>

\* ---- the main loop of scrape()
\* scrape() up to its first await: the set is cleared, the seeds are enqueued at depth 1
StartScrape ==
  /\ mainPc = "idle"
  /\ processedUrls' = {}
  /\ LET fr == EnqueueAll([queue |-> <<>>, seen |-> {}, calls |-> [p \in Pages |-> 0],
                           apps |-> [p \in Pages |-> 0]], {}, cfg.seeds, 1)
     IN  /\ queue' = fr.queue
         /\ seenQueued' = fr.seen
         /\ enqCalls' = fr.calls
         /\ appends' = fr.apps
  /\ results' = <<>>
  /\ processedCount' = 0
  /\ failedCount' = 0
  /\ sem' = Semaphore(cfg.concurrency)
  /\ mainPc' = IF cfg.followSitemaps /\ cfg.seeds # <<>> THEN "sitemap" ELSE "loop"
  /\ UNCHANGED <<cfg, holders, hostLocks, lockOwner, lastAge, robotsCache, wpc, wurl, wdepth,
                 wattempt, wtimer, cancelRequested, cancelCaught, cancelObserved, transientLeft, fetchCount,
                 since, shortGap, lastReport>>

\* the sitemaps have been read (or not): at most maxPages URLs, enqueued at depth 1
SitemapsRead ==
  /\ mainPc = "sitemap"
  /\ \E found \in {<<>>, SitemapUrls} :
       LET bounded == SubSeq(found, 1, Min(Len(found), cfg.maxPages))
           fr == EnqueueAll(Frontier, processedUrls, bounded, 1)
       IN  /\ queue' = fr.queue
           /\ seenQueued' = fr.seen
           /\ enqCalls' = fr.calls
           /\ appends' = fr.apps
  /\ mainPc' = "loop"
  /\ UNCHANGED <<cfg, processedUrls, results, processedCount, failedCount, sem, holders,
                 hostLocks, lockOwner, lastAge, robotsCache, wpc, wurl, wdepth, wattempt,
                 wtimer, cancelRequested, cancelCaught, cancelObserved, transientLeft, fetchCount, since,
                 shortGap, lastReport>>

RECURSIVE DispatchLoop(_, _, _)
\* `for (i = 0; i < batchSize && queue.isNotEmpty; i++)`: the item is taken
\* from the queue and, unless processed, a future is added that starts with
\* globalSemaphore.acquire(); st = [queue, sem, holders, pc, url, depth, slot]
DispatchLoop(k, batchSize, st) ==
  IF k >= batchSize \/ st.queue = <<>> THEN st
  ELSE LET item == Head(st.queue)
           rest == [st EXCEPT !.queue = Tail(@)]
       IN  IF item.url \in processedUrls
           THEN DispatchLoop(k + 1, batchSize, rest)
           ELSE LET a == SemAcquire(st.sem, st.slot)
                IN  DispatchLoop(k + 1, batchSize,
                      [rest EXCEPT !.sem = a.sem,
                                   !.holders = IF a.granted THEN @ \cup {st.slot} ELSE @,
                                   !.pc[st.slot] = IF a.granted THEN "start" ELSE "semwait",
                                   !.url[st.slot] = item.url,
                                   !.depth[st.slot] = item.depth,
                                   !.slot = @ + 1])

\* job.crawlerConfig.concurrency.clamp(1, queue.length)
BatchSizeOf(concurrency, queueLength) == Clamp(concurrency, 1, queueLength)

LoopRunsUntilFailure(queueLen, done, maxPages) ==
  queueLen > 0 /\ done < maxPages /\ failedCount = 0
\* `while (queue.isNotEmpty && processedCount < job.crawlerConfig.maxPages)`
LoopRuns(queueLen, done, maxPages) == queueLen > 0 /\ done < maxPages

\* the top of the while loop: leave, observe the cancellation, or dispatch a batch
LoopTop ==
  /\ mainPc = "loop"
  /\ IF ~LoopRuns(Len(queue), processedCount, cfg.maxPages)
     THEN /\ mainPc' = "returned"
          /\ UNCHANGED <<queue, sem, holders, wpc, wurl, wdepth, cancelObserved>>
     ELSE IF cancelRequested
     THEN /\ cancelObserved' = TRUE
          /\ mainPc' = "returned"
          /\ UNCHANGED <<queue, sem, holders, wpc, wurl, wdepth>>
     ELSE LET st == DispatchLoop(0, BatchSizeOf(cfg.concurrency, Len(queue)),
                       [queue |-> queue, sem |-> sem, holders |-> holders, pc |-> wpc,
                        url |-> wurl, depth |-> wdepth, slot |-> 1])
          IN  /\ queue' = st.queue
              /\ sem' = st.sem
              /\ holders' = st.holders
              /\ wpc' = st.pc
              /\ wurl' = st.url
              /\ wdepth' = st.depth
              /\ mainPc' = "wait"
              /\ UNCHANGED cancelObserved
  /\ UNCHANGED <<cfg, seenQueued, processedUrls, enqCalls, appends, results, processedCount, failedCount,
                 hostLocks, lockOwner, lastAge, robotsCache, wattempt, wtimer, cancelRequested, cancelCaught,
                 transientLeft, fetchCount, since, shortGap, lastReport>>

\* `await Future.wait(futures)` completes
AwaitBatch ==
  /\ mainPc = "wait"
  /\ \A w \in Slots : wpc[w] \in {"free", "done"}
  /\ wpc' = [w \in Slots |-> "free"]
  /\ mainPc' = "loop"
  /\ UNCHANGED <<cfg, queue, seenQueued, processedUrls, enqCalls, appends, results, processedCount,
                 failedCount, sem, holders, hostLocks, lockOwner, lastAge, robotsCache, wurl,
                 wdepth, wattempt, wtimer, cancelRequested, cancelCaught, cancelObserved, transientLeft,
                 fetchCount, since, shortGap, lastReport>>

\* ScrapingService.cancelJob() while the job runs
Cancel ==
  /\ mainPc \in {"sitemap", "wait"}
  /\ Quiet
  /\ ~cancelRequested
  /\ cancelRequested' = TRUE
  /\ cancelCaught' = {w \in Slots : wpc[w] = "request"}
  /\ UNCHANGED <<cfg, mainPc, queue, seenQueued, processedUrls, enqCalls, appends, results,
                 processedCount, failedCount, sem, holders, hostLocks, lockOwner, lastAge,
                 robotsCache, wpc, wurl, wdepth, wattempt, wtimer, cancelObserved,
                 transientLeft, fetchCount, since, shortGap, lastReport>>

\* ---- ensureCollection, one whole call per step
MaxCalls == 5

EnsureCall ==
  /\ Len(ecalls) < MaxCalls
  /\ \E status \in GetStatuses(eExists), putOk \in BOOLEAN :
       LET r == EnsureCollection(eExists, status, putOk) IN
         \* a PUT the call never sends has no answer to choose
         /\ (r.puts = 0 => putOk)
         /\ eExists' = r.exists
         /\ ecalls' = Append(ecalls, [status |-> status, puts |-> r.puts, threw |-> r.threw])
  /\ UNCHANGED <<eInitial, retryVars, backoffVars, domainVars, serviceVars, lateVars>>

\* ---- the retrying fetches
\* what one request can end in: a page, a status that is not retried, a
\* status that is (429, 502, 503, 504; for GitHub also 403 with no quota
\* left), a timeout, a connection error
RetryOutcomes == {"ok", "status", "transient", "timeout", "error"}

ExhaustedLate(attempt, maxRetries) == attempt > maxRetries + 1
\* `if (attempt > maxRetries) return ...`
Exhausted(attempt, maxRetries) == attempt > maxRetries

\* one turn of `while (true)` of _getWithRetry, from `attempt++` to the
\* return or to the end of the wait; headerSeconds is the retry-after value
GetWithRetryTurn(attempt, maxRetries, outcome, headerSeconds) ==
  LET a == attempt + 1 IN
    IF outcome \in {"ok", "status"}
    THEN [attempt |-> a, pc |-> "returned", result |-> "response", wait |-> 0]
    ELSE IF Exhausted(a, maxRetries)
    THEN [attempt |-> a, pc |-> "returned",
          result |-> IF outcome = "transient" THEN "response" ELSE "null", wait |-> 0]
    ELSE [attempt |-> a, pc |-> "running", result |-> "",
          wait |-> ComputeBackoffMs(a, IF outcome = "transient" THEN headerSeconds ELSE <<>>)]

\* one turn of the for loop of fetchWithRetry, which starts at attempt 0
FetchWithRetryTurn(attempt, retries, outcome) ==
  IF outcome = "ok"
  THEN [attempt |-> attempt, pc |-> "returned", result |-> "text", wait |-> 0]
  ELSE IF attempt = retries
  THEN [attempt |-> attempt, pc |-> "returned", result |-> "null", wait |-> 0]
  ELSE [attempt |-> attempt + 1, pc |-> "running", result |-> "",
        wait |-> 500 * (attempt + 1)]

StatusCodes == {200, 204, 403, 404, 429, 500, 502, 503, 504}

IsTransientAny5xx(sc) == sc >= 500
\* `sc == 502 || sc == 503 || sc == 504`
IsTransient(sc) == sc \in {502, 503, 504}

\* `response.statusCode == 429 || (response.statusCode == 403 && remaining == '0')`
IsRateLimited(sc, remaining) == sc = 429 \/ (sc = 403 /\ remaining = "0")

\* how the caller treats a response: res.ok for fetchWithRetry, the rate-limit
\* and transient tests for the two _getWithRetry (the website scraper reads
\* no x-ratelimit header)
Classify(flavor, sc, remaining) ==
  IF flavor = "server"
  THEN IF sc \in 200..299 THEN "ok" ELSE "status"
  ELSE IF IsTransient(sc) \/ IsRateLimited(sc, IF flavor = "github" THEN remaining ELSE "")
  THEN "transient"
  ELSE IF sc \in 200..299 THEN "ok" ELSE "status"

RetryRequest ==
  /\ retPc = "running"
  /\ \E kind \in {"response", "timeout", "error"}, sc \in StatusCodes \cup {0},
        remaining \in {"", "0", "7"}, headerSeconds \in {<<>>, <<2>>} :
       LET outcome == IF kind = "response" THEN Classify(rFlavor, sc, remaining) ELSE kind
           r == IF rFlavor = "server"
                THEN FetchWithRetryTurn(rAttempt, rCap, outcome)
                ELSE GetWithRetryTurn(rAttempt, rCap, outcome, headerSeconds)
       IN  /\ (kind = "response") = (sc # 0)
           /\ sc = 0 => remaining = ""
           /\ (outcome # "transient" \/ rFlavor = "server") => headerSeconds = <<>>
           /\ rRequests' = rRequests + 1
           /\ rLast' = outcome
           /\ rStatus' = sc
           /\ rRemaining' = remaining
           /\ rAttempt' = r.attempt
           /\ retPc' = r.pc
           /\ rResult' = r.result
           /\ rWait' = r.wait
  /\ UNCHANGED <<rFlavor, rCap, ensureVars, backoffVars, domainVars, serviceVars, lateVars>>

\* ---- _computeBackoffMs, attempt after attempt
MaxAttempt == 10

BackoffCall ==
  /\ boAttempt < MaxAttempt
  /\ boAttempt' = boAttempt + 1
  /\ boPrev' = boMs
  /\ boMs' = IF boFlavor = "github"
             THEN GithubComputeBackoffMs(boAttempt + 1, boHeaders.retryAfter,
                                         boHeaders.remaining, boHeaders.resetIn)
             ELSE ComputeBackoffMs(boAttempt + 1, boHeaders.retryAfter)
  /\ UNCHANGED <<boFlavor, boHeaders, ensureVars, retryVars, domainVars, serviceVars,
                 lateVars>>

\* ---- _isAllowedDomain, one call
IsAllowedDomainCall ==
  /\ dpc = "call"
  /\ dAccepted' = HostAllowed(dHost, dAllowed)
  /\ dpc' = "returned"
  /\ UNCHANGED <<dHost, dAllowed, ensureVars, retryVars, backoffVars, serviceVars, lateVars>>

\* ---- ScrapingService
\* enum JobStatus
JobStatus == {"pending", "running", "completed", "failed"}
CancelledByUserMessage == "Cancelled by user"
MaxRuns == 3
MaxProgress == 4

otherAux == <<ensureVars, retryVars, backoffVars, domainVars, lateVars>>

\* job.status = s
SetStatus(s) == sStatus' = s /\ sLog' = Append(sLog, s)

\* startJob(job) with a new job, up to the first await
StartJob ==
  /\ sPc \in {"idle", "returned"}
  /\ sRuns < MaxRuns
  /\ sStatus # "running"
  /\ sCancel' = FALSE
  /\ sStatus' = "running"
  /\ sLog' = <<"pending", "running">>
  /\ sError' = ""
  /\ sObserved' = FALSE
  /\ sPages' = 0
  /\ sPc' = "scraping"
  /\ sRuns' = sRuns + 1
  /\ UNCHANGED otherAux

\* the scraper reports a page
OnProgress ==
  /\ sPc = "scraping"
  /\ sPages < MaxProgress
  /\ sPages' = sPages + 1
  /\ UNCHANGED <<sStatus, sError, sCancel, sObserved, sPc, sLog, sRuns, otherAux>>

\* _markJobCancelled
MarkJobCancelled == SetStatus("failed") /\ sError' = CancelledByUserMessage

\* scrape() returns or throws, and startJob goes on to its next await or its end
ScrapeEnds ==
  /\ sPc = "scraping"
  /\ \E threw \in BOOLEAN :
       IF threw
       THEN /\ SetStatus("failed")
            /\ sError' = "exception"
            /\ sPc' = "returned"
            /\ UNCHANGED sObserved
       ELSE IF sCancel
       THEN /\ MarkJobCancelled
            /\ sObserved' = TRUE
            /\ sPc' = "returned"
       ELSE /\ sPc' = "exporting"
            /\ UNCHANGED <<sStatus, sLog, sError, sObserved>>
  /\ UNCHANGED <<sCancel, sPages, sRuns, otherAux>>

\* generateExports returns or throws
ExportEnds ==
  /\ sPc = "exporting"
  /\ \E threw \in BOOLEAN :
       IF threw
       THEN SetStatus("failed") /\ sError' = "exception"
       ELSE SetStatus("completed") /\ UNCHANGED sError
  /\ sPc' = "returned"
  /\ UNCHANGED <<sCancel, sObserved, sPages, sRuns, otherAux>>

\* cancelJob()
CancelJob ==
  /\ sStatus = "running"
  /\ sCancel' = TRUE
  /\ UNCHANGED <<sStatus, sError, sObserved, sPc, sLog, sPages, sRuns, otherAux>>

\* ============================================================ _findSitemapUrls
MaxLocs == 2
MaxUrlsCap == 2
MaxStack == 3
MaxDisc == 3

\* sitemap URLs (s0 is /sitemap.xml of the host) and the page URLs they list
SitemapNames == {"s0", "s1"}
PageLocs == {"u1", "u2"}

\* what a sitemap URL serves: a <sitemapindex> that lists sitemaps, or a
\* document whose <loc> elements are page URLs
SitemapDocs ==
  {[index |-> TRUE, locs |-> l] : l \in SeqsUpTo(SitemapNames, MaxLocs)}
    \cup {[index |-> FALSE, locs |-> l] : l \in SeqsUpTo(PageLocs, MaxLocs)}

RobotsLineLists == {<<>>, <<"s1">>, <<"-", "s1">>, <<"s1", "s0">>}

AtMaxLate(maxUrls, n) == maxUrls # <<>> /\ n > maxUrls[1]
\* `maxUrls != null && discovered.length >= maxUrls`
AtMax(maxUrls, n) == maxUrls # <<>> /\ n >= maxUrls[1]

RECURSIVE AddLocs(_, _, _)
\* `for (final loc in locs) { if (...) break; discovered.add(loc); }`
AddLocs(disc, locs, maxUrls) ==
  IF locs = <<>> \/ AtMax(maxUrls, Len(disc)) THEN disc
  ELSE AddLocs(Append(disc, Head(locs)), Tail(locs), maxUrls)

\* "Dedupe and bound"
BoundedSet(disc, maxUrls) ==
  LET list == Dedupe(disc, <<>>)
  IN  IF maxUrls # <<>> /\ Len(list) > maxUrls[1] THEN SubSeq(list, 1, maxUrls[1]) ELSE list

\* a loop over the locs of an index is entered: the frames that do not fit
\* the model's stack are left out, outermost first
PushFrame(stack, frame) ==
  IF Len(stack) >= MaxStack
  THEN [stack |-> Append(Tail(stack), frame), cut |-> TRUE]
  ELSE [stack |-> Append(stack, frame), cut |-> FALSE]

RECURSIVE RobotsLoop(_, _, _)
\* the loop over the lines of robots.txt from line k up to the next call of
\* fetchAndParseSitemap or to its end
RobotsLoop(lines, k, disc) ==
  IF k > Len(lines) THEN [pc |-> "returned", target |-> "", k |-> k]
  ELSE IF lines[k] = "-"
  THEN IF AtMax(smMax, Len(disc))
       THEN [pc |-> "returned", target |-> "", k |-> k]
       ELSE RobotsLoop(lines, k + 1, disc)
  ELSE [pc |-> "sitemap", target |-> lines[k], k |-> k + 1]

RECURSIVE Continue(_, _, _)
\* a call of fetchAndParseSitemap has returned: the loop that awaited it goes
\* on, up to the next request or to the return of _findSitemapUrls
Continue(stack, cut, disc) ==
  IF stack = <<>>
  THEN IF cut
       THEN [pc |-> "unknown", target |-> "", stack |-> <<>>]
       ELSE [pc |-> "robots", target |-> "", stack |-> <<>>]
  ELSE LET top == stack[Len(stack)]
           rest == SubSeq(stack, 1, Len(stack) - 1)
       IN  IF top.kind = "index"
           THEN IF top.k > Len(top.locs) \/ AtMax(smMax, Len(disc))
                THEN Continue(rest, cut, disc)
                ELSE [pc |-> "sitemap", target |-> top.locs[top.k],
                      stack |-> Append(rest, [top EXCEPT !.k = @ + 1])]
           ELSE IF AtMax(smMax, Len(disc))
                THEN [pc |-> "returned", target |-> "", stack |-> <<>>]
                ELSE LET r == RobotsLoop(top.locs, top.k, disc)
                     IN  [pc |-> r.pc, target |-> r.target,
                          stack |-> IF r.pc = "returned" THEN <<>>
                                    ELSE <<[top EXCEPT !.k = r.k]>>]

beforeLate == <<ensureVars, retryVars, backoffVars, domainVars, serviceVars>>
besideSitemap == <<beforeLate, semUnitVars, chunkTextVars>>

\* the response to the GET of fetchAndParseSitemap, and what follows it up to
\* the next await
SitemapResponse ==
  /\ smPc = "sitemap"
  /\ \E ok \in BOOLEAN :
       LET doc == smDocs[smTarget]
           p == IF ok /\ doc.index
                THEN PushFrame(smStack, [kind |-> "index", locs |-> doc.locs, k |-> 1])
                ELSE [stack |-> smStack, cut |-> FALSE]
           all == IF ok /\ ~doc.index THEN AddLocs(discovered, doc.locs, smMax) ELSE discovered
           \* a list of more than MaxDisc entries is not followed any further
           d == IF Len(all) > MaxDisc THEN discovered ELSE all
           c == IF Len(all) > MaxDisc
                THEN [pc |-> "unknown", target |-> "", stack |-> <<>>]
                ELSE Continue(p.stack, smCut \/ p.cut, d)
       IN  /\ discovered' = d
           /\ smCut' = (smCut \/ p.cut)
           /\ smPc' = c.pc
           /\ smTarget' = c.target
           /\ smStack' = c.stack
           /\ smResult' = IF c.pc = "returned" THEN BoundedSet(d, smMax) ELSE smResult
  /\ smBeat' = ~smBeat
  /\ UNCHANGED <<smDocs, smMax, smLines, besideSitemap>>

\* the response to the GET of /robots.txt in _findSitemapUrls
RobotsSitemapResponse ==
  /\ smPc = "robots"
  /\ \E ok \in BOOLEAN :
       LET r == IF ok THEN RobotsLoop(smLines, 1, discovered)
                ELSE [pc |-> "returned", target |-> "", k |-> 1]
       IN  /\ smPc' = r.pc
           /\ smTarget' = r.target
           /\ smStack' = IF r.pc = "returned" THEN <<>>
                         ELSE <<[kind |-> "robots", locs |-> smLines, k |-> r.k]>>
           /\ smResult' = IF r.pc = "returned" THEN BoundedSet(discovered, smMax) ELSE smResult
  /\ UNCHANGED <<smDocs, smMax, smLines, smCut, discovered, smBeat, besideSitemap>>

\* ============================================================ Semaphore, on its own
MaxPermits == 3
MaxCallers == 4
Callers == 1..MaxCallers

Waiting(s) == {s.waitQueue[k] : k \in 1..Len(s.waitQueue)}

\* a caller that neither holds a permit nor waits for one calls acquire()
CallAcquire(c) ==
  /\ c \notin unHolders
  /\ c \notin Waiting(unSem)
  /\ LET a == SemAcquire(unSem, c)
     IN  /\ unSem' = a.sem
         /\ unHolders' = IF a.granted THEN unHolders \cup {c} ELSE unHolders
  /\ UNCHANGED <<unMax, sitemapVars, chunkTextVars, beforeLate>>

\* a holder calls release(): the first waiter's future completes, if any
CallRelease(c) ==
  /\ c \in unHolders
  /\ LET rel == SemRelease(unSem)
     IN  /\ unSem' = rel.sem
         /\ unHolders' = (unHolders \ {c}) \cup (IF rel.woken = 0 THEN {} ELSE {rel.woken})
  /\ UNCHANGED <<unMax, sitemapVars, chunkTextVars, beforeLate>>

\* ============================================================ ProcessedPage._chunkText
MaxPageText == 5
MaxChunkSize == 3
MaxTextIter == 6

\* the characters told apart by _findBreakPoint: "n" is a line feed
Chars == {"a", " ", ".", "n"}

\* text.lastIndexOf(pattern, from): the greatest 0-based index at or before
\* `from` where pattern occurs, or -1
lastIndexOf(text, pattern, from) ==
  LET hits == {k \in 0..Min(from, Len(text) - Len(pattern)) :
                 SubSeq(text, k + 1, k + Len(pattern)) = pattern}
  IN  IF hits = {} THEN -1 ELSE CHOOSE k \in hits : \A x \in hits : x <= k

\* _findBreakPoint(text, start, end): paragraph break, sentence break, word
\* boundary, else end
findBreakPoint(text, start, end) ==
  LET lastParagraph == lastIndexOf(text, <<"n", "n">>, end - 1)
      lastSentence == lastIndexOf(text, <<".">>, end - 1)
      lastSpace == lastIndexOf(text, <<" ">>, end - 1)
  IN  IF lastParagraph > start THEN lastParagraph
      ELSE IF lastSentence > start /\ lastSentence < Len(text) - 1 THEN lastSentence + 1
      ELSE IF lastSpace > start THEN lastSpace
      ELSE end

\* `if (text.length <= chunkSize) return [text]`, else the loop is entered
ChunkTextCall ==
  /\ ctPc = "call"
  /\ IF Len(ctText) <= ctSize
     THEN /\ ctChunks' = <<[from |-> 0, to |-> Len(ctText)]>>
          /\ ctPc' = "returned"
     ELSE /\ ctPc' = "loop"
          /\ UNCHANGED ctChunks
  /\ UNCHANGED <<ctText, ctSize, ctOverlap, ctStart, ctIters>>
  /\ UNCHANGED <<sitemapVars, semUnitVars, beforeLate>>

\* one iteration of `while (start < text.length)`
ChunkTextIter ==
  /\ ctPc = "loop"
  /\ ctIters < MaxTextIter
  /\ ctIters' = ctIters + 1
  /\ IF ctStart >= Len(ctText)
     THEN /\ ctPc' = "returned"
          /\ UNCHANGED <<ctChunks, ctStart>>
     ELSE LET end == ctStart + ctSize
              breakPoint == findBreakPoint(ctText, ctStart, end)
          IN  IF end >= Len(ctText)
              THEN /\ ctChunks' = Append(ctChunks, [from |-> ctStart, to |-> Len(ctText)])
                   /\ ctPc' = "returned"
                   /\ UNCHANGED ctStart
              ELSE /\ ctChunks' = Append(ctChunks, [from |-> ctStart, to |-> breakPoint])
                   /\ ctStart' = Max(0, breakPoint - ctOverlap)
                   /\ ctPc' = "loop"
  /\ UNCHANGED <<ctText, ctSize, ctOverlap>>
  /\ UNCHANGED <<sitemapVars, semUnitVars, beforeLate>>

\* ============================================================ specifications
\* ---- the state of a subsystem that is not running
ChunkIdle ==
  /\ sentences = <<>>
  /\ targetTokens = 0
  /\ overlapTokens = 0
  /\ i = 0
  /\ ord = 0
  /\ chunks = <<>>
  /\ iters = 0
  /\ lastIJ = <<>>
  /\ cpc = "idle"

NormIdle ==
  /\ input = <<>>
  /\ once = <<>>
  /\ twice = <<>>
  /\ npc = "idle"

RagIdle ==
  /\ files = <<>>
  /\ fidx = 0
  /\ cix = 0
  /\ points = <<>>
  /\ bix = 0
  /\ upserts = <<>>
  /\ exported = <<>>
  /\ chunkCount = 0
  /\ processed = 0
  /\ progress = <<>>
  /\ handleOpen = FALSE
  /\ collExists = FALSE
  /\ nGet = 0
  /\ nPut = 0
  /\ rpc = "idle"
  /\ nEmbed = 0
  /\ nUpsert = 0
  /\ ragFailure = <<>>
  /\ jobStatus = "idle"
  /\ jobError = ""
  /\ jobLog = <<>>
  /\ jobType = ""
  /\ jobMaxPages = 0
  /\ scraped = 0
  /\ jobProgress = 0

RobotsIdle ==
  /\ allow = <<>>
  /\ disallow = <<>>
  /\ path = <<>>
  /\ allowed = FALSE
  /\ bpc = "idle"

CrawlIdle ==
  /\ cfg = <<>>
  /\ mainPc = "off"
  /\ queue = <<>>
  /\ seenQueued = {}
  /\ processedUrls = {}
  /\ enqCalls = <<>>
  /\ appends = <<>>
  /\ results = <<>>
  /\ processedCount = 0
  /\ failedCount = 0
  /\ sem = <<>>
  /\ holders = {}
  /\ hostLocks = <<>>
  /\ lockOwner = <<>>
  /\ lastAge = <<>>
  /\ robotsCache = <<>>
  /\ wpc = <<>>
  /\ wurl = <<>>
  /\ wdepth = <<>>
  /\ wattempt = <<>>
  /\ wtimer = <<>>
  /\ cancelRequested = FALSE
  /\ cancelCaught = {}
  /\ cancelObserved = FALSE
  /\ transientLeft = 0
  /\ fetchCount = <<>>
  /\ since = <<>>
  /\ shortGap = FALSE
  /\ lastReport = <<>>

EnsureIdle ==
  /\ eInitial = FALSE
  /\ eExists = FALSE
  /\ ecalls = <<>>

RetryIdle ==
  /\ rFlavor = ""
  /\ rCap = 0
  /\ rAttempt = 0
  /\ rRequests = 0
  /\ rLast = ""
  /\ rStatus = 0
  /\ rRemaining = ""
  /\ rWait = 0
  /\ retPc = "idle"
  /\ rResult = ""

BackoffIdle ==
  /\ boFlavor = ""
  /\ boHeaders = <<>>
  /\ boAttempt = 0
  /\ boMs = 0
  /\ boPrev = 0

DomainIdle ==
  /\ dHost = <<>>
  /\ dAllowed = <<>>
  /\ dAccepted = FALSE
  /\ dpc = "idle"

ServiceIdle ==
  /\ sStatus = ""
  /\ sError = ""
  /\ sCancel = FALSE
  /\ sObserved = FALSE
  /\ sPc = "off"
  /\ sLog = <<>>
  /\ sPages = 0
  /\ sRuns = 0

SitemapIdle ==
  /\ smDocs = <<>>
  /\ smMax = <<>>
  /\ smLines = <<>>
  /\ smPc = "idle"
  /\ smTarget = ""
  /\ smStack = <<>>
  /\ smCut = FALSE
  /\ discovered = <<>>
  /\ smResult = <<>>
  /\ smBeat = FALSE

SemUnitIdle ==
  /\ unMax = 0
  /\ unSem = Semaphore(0)
  /\ unHolders = {}

ChunkTextIdle ==
  /\ ctText = <<>>
  /\ ctSize = 1
  /\ ctOverlap = 0
  /\ ctStart = 0
  /\ ctChunks = <<>>
  /\ ctIters = 0
  /\ ctPc = "idle"

LateIdle == SitemapIdle /\ SemUnitIdle /\ ChunkTextIdle

AuxIdle == EnsureIdle /\ RetryIdle /\ BackoffIdle /\ DomainIdle /\ ServiceIdle /\ LateIdle

\* ---- initial states
\* rule paths as _normalizeRulePath leaves them: empty, or starting with "/"
RulePaths == {<<>>, <<"/">>, <<"/", "a">>, <<"/", "a", "/", "b">>, <<"/", "b">>}
AskedPaths == {<<>>, <<"/">>, <<"/", "a">>, <<"/", "a", "/", "b">>,
               <<"/", "a", "/", "b", "/", "x">>, <<"/", "a", "/", "s">>, <<"/", "b">>}

\* a rule set and a path to ask it about
InitRobots ==
  /\ allow \in SeqsUpTo(RulePaths, MaxRules)
  /\ disallow \in SeqsUpTo(RulePaths, MaxRules)
  /\ path \in AskedPaths
  /\ allowed = FALSE
  /\ bpc = "call"

\* a call chunkTextToRag(rawText, name, url, targetTokens, overlapTokens), at
\* the top of the packing loop
InitChunk ==
  /\ sentences \in SeqsUpTo(1..MaxSentLen, MaxSent)
  /\ targetTokens \in 1..MaxTarget
  /\ overlapTokens \in 0..MaxOverlap
  /\ i = 0
  /\ ord = 0
  /\ chunks = <<>>
  /\ iters = 0
  /\ lastIJ = <<>>
  /\ cpc = "loop"

\* a text over the characters that matter to normalize
InitNorm ==
  /\ input \in SeqsUpTo({" ", "#", "a", "\n", "\r"}, MaxText)
  /\ once = <<>>
  /\ twice = <<>>
  /\ npc = "start"

\* a text of LongSentences sentences of 1600 characters: its chunks are one
\* more than one upsert batch holds
LongSentences == BatchSize + 2
LongText == [k \in 1..LongSentences |-> 1600]
\* texts of one sentence, of three sentences that pack two by two, of two
\* sentences too long to share a chunk, the empty text and the long text
RagTexts == {<<>>, <<1600>>, <<1600, 1600, 1600>>, <<2000, 2000>>, LongText}

\* a job row just created and queued, with the files its scrape will give
InitRag ==
  /\ files \in SeqsUpTo(RagTexts, MaxFiles)
  /\ fidx = 0
  /\ cix = 0
  /\ points = <<>>
  /\ bix = 0
  /\ upserts = <<>>
  /\ exported = <<>>
  /\ chunkCount = 0
  /\ processed = 0
  /\ progress = <<>>
  /\ handleOpen = FALSE
  /\ collExists \in BOOLEAN
  /\ nGet = 0
  /\ nPut = 0
  /\ rpc = "queued"
  /\ nEmbed = 0
  /\ nUpsert = 0
  /\ ragFailure = <<>>
  /\ jobStatus = "queued"
  /\ jobError = ""
  /\ jobLog = <<"queued">>
  /\ jobType \in {"docs", "repo"}
  /\ jobMaxPages \in Max(1, Len(files))..MaxFiles + 1
  /\ scraped = 0
  /\ jobProgress = 0

\* ---- a WebsiteScraper just constructed and the job it is given
\* the job: crawlerConfig (concurrency, maxPages, delayMs, respectRobots,
\* followSitemaps), websiteConfig (maxDepth, allowedDomains, basePath), sourceUrls,
\* and whether the service may call validate(job) on the scraper before scrape
Job(c, m, d, r, dom, s, depth, v) ==
  [concurrency |-> c, maxPages |-> m, delayMs |-> d, respectRobots |-> r,
   followSitemaps |-> r, maxDepth |-> depth, allowedDomains |-> dom, basePath |-> <<>>,
   seeds |-> s, validateFirst |-> v]

Configs ==
  UNION { { Job(c, 1, 0, TRUE, <<>>, << <<"p1", "">> >>, 2, TRUE),
            Job(c, MaxPagesCap, 2000, FALSE, <<HostA, HostB>>,
                << <<"p1", "f">>, <<"p1", "">>, <<"p3", "">> >>, 2, FALSE),
            Job(c, MaxPagesCap, 0, TRUE, <<HostA, HostB>>,
                << <<"p1", "">>, <<"p3", "">>, <<"p2", "">>, <<"mailto", "">> >>, 2, FALSE),
            Job(c, MaxPagesCap, 0, FALSE, <<HostA>>, << <<"p1", "">> >>, 1, TRUE) } : c \in 0..MaxConc }

InitCrawl ==
  /\ cfg \in Configs
  /\ mainPc = "idle"
  /\ queue = <<>>
  /\ seenQueued = {}
  /\ processedUrls = {}
  /\ enqCalls = [p \in Pages |-> 0]
  /\ appends = [p \in Pages |-> 0]
  /\ results = <<>>
  /\ processedCount = 0
  /\ failedCount = 0
  /\ sem = Semaphore(0)
  /\ holders = {}
  /\ hostLocks = <<>>
  /\ lockOwner = <<>>
  /\ lastAge = <<>>
  /\ robotsCache = <<>>
  /\ wpc = [w \in Slots |-> "free"]
  /\ wurl = [w \in Slots |-> NoUrl]
  /\ wdepth = [w \in Slots |-> 0]
  /\ wattempt = [w \in Slots |-> 0]
  /\ wtimer = [w \in Slots |-> 0]
  /\ cancelRequested = FALSE
  /\ cancelCaught = {}
  /\ cancelObserved = FALSE
  /\ transientLeft = MaxTransient
  /\ fetchCount = [p \in Pages |-> 0]
  /\ since = <<>>
  /\ shortGap = FALSE
  /\ lastReport = [slot |-> 0, exit |-> "", permit |-> FALSE, hostLock |-> FALSE]

\* ---- next-state relations
NextChunk ==
  \/ ChunkIter /\ UNCHANGED <<normVars, ragVars, robotsVars, crawlVars, auxVars>>
  \/ ChunkReturn /\ UNCHANGED <<normVars, ragVars, robotsVars, crawlVars, auxVars>>

NextNorm ==
  \/ NormalizeOnce /\ UNCHANGED <<chunkVars, ragVars, robotsVars, crawlVars, auxVars>>
  \/ NormalizeTwice /\ UNCHANGED <<chunkVars, ragVars, robotsVars, crawlVars, auxVars>>

NextRag ==
  \/ JobStart /\ UNCHANGED <<normVars, robotsVars, crawlVars, auxVars>>
  \/ ScrapeReport /\ UNCHANGED <<normVars, robotsVars, crawlVars, auxVars>>
  \/ ScrapeEnd /\ UNCHANGED <<normVars, robotsVars, crawlVars, auxVars>>
  \/ JobEnd /\ UNCHANGED <<normVars, robotsVars, crawlVars, auxVars>>
  \/ RagEnsure /\ UNCHANGED <<normVars, robotsVars, crawlVars, auxVars>>
  \/ RagNextFile /\ UNCHANGED <<normVars, robotsVars, crawlVars, auxVars>>
  \/ (rpc = "chunking" /\ ChunkIter) /\ UNCHANGED <<normVars, ragVars, robotsVars, crawlVars, auxVars>>
  \/ (rpc = "chunking" /\ ChunkReturn) /\ UNCHANGED <<normVars, ragVars, robotsVars, crawlVars, auxVars>>
  \/ RagChunked /\ UNCHANGED <<normVars, robotsVars, crawlVars, auxVars>>
  \/ RagChunk /\ UNCHANGED <<normVars, robotsVars, crawlVars, auxVars>>
  \/ RagUpsert /\ UNCHANGED <<normVars, robotsVars, crawlVars, auxVars>>

NextRobots == IsAllowedCall /\ UNCHANGED <<chunkVars, normVars, ragVars, crawlVars, auxVars>>

NextCrawl ==
  \/ (Validate /\ UNCHANGED <<chunkVars, normVars, ragVars, robotsVars, auxVars>>)
  \/ (StartScrape /\ UNCHANGED <<chunkVars, normVars, ragVars, robotsVars, auxVars>>)
  \/ (SitemapsRead /\ UNCHANGED <<chunkVars, normVars, ragVars, robotsVars, auxVars>>)
  \/ (LoopTop /\ UNCHANGED <<chunkVars, normVars, ragVars, robotsVars, auxVars>>)
  \/ (AwaitBatch /\ UNCHANGED <<chunkVars, normVars, ragVars, robotsVars, auxVars>>)
  \/ (Cancel /\ UNCHANGED <<chunkVars, normVars, ragVars, robotsVars, auxVars>>)
  \/ (Tick /\ UNCHANGED <<chunkVars, normVars, ragVars, robotsVars, auxVars>>)
  \/ \E w \in Slots :
       \/ (WorkerStart(w) /\ UNCHANGED <<chunkVars, normVars, ragVars, robotsVars, auxVars>>)
       \/ (RobotsResponse(w) /\ UNCHANGED <<chunkVars, normVars, ragVars, robotsVars, auxVars>>)
       \/ (LockedStep(w) /\ UNCHANGED <<chunkVars, normVars, ragVars, robotsVars, auxVars>>)
       \/ (DelayWake(w) /\ UNCHANGED <<chunkVars, normVars, ragVars, robotsVars, auxVars>>)
       \/ (Response(w) /\ UNCHANGED <<chunkVars, normVars, ragVars, robotsVars, auxVars>>)
       \/ (BackoffWake(w) /\ UNCHANGED <<chunkVars, normVars, ragVars, robotsVars, auxVars>>)

\* ---- specifications
StartChunk == InitChunk /\ NormIdle /\ RagIdle /\ RobotsIdle /\ CrawlIdle /\ AuxIdle
SpecChunk == StartChunk /\ [][NextChunk]_vars

StartNorm == InitNorm /\ ChunkIdle /\ RagIdle /\ RobotsIdle /\ CrawlIdle /\ AuxIdle
SpecNorm == StartNorm /\ [][NextNorm]_vars

StartRag == InitRag /\ ChunkIdle /\ NormIdle /\ RobotsIdle /\ CrawlIdle /\ AuxIdle
SpecRag == StartRag /\ [][NextRag]_vars

StartRobots == InitRobots /\ ChunkIdle /\ NormIdle /\ RagIdle /\ CrawlIdle /\ AuxIdle
SpecRobots == StartRobots /\ [][NextRobots]_vars

StartCrawl == InitCrawl /\ ChunkIdle /\ NormIdle /\ RagIdle /\ RobotsIdle /\ AuxIdle
SpecCrawl == StartCrawl /\ [][NextCrawl]_vars

\* the event loop runs every continuation, timer and response that is ready;
\* only the user's cancelJob may never come
CrawlRuns == NextCrawl /\ UNCHANGED cancelRequested
SpecCrawlLive == StartCrawl /\ [][NextCrawl]_vars /\ WF_vars(CrawlRuns)

InitEnsure ==
  /\ eInitial \in BOOLEAN
  /\ eExists = eInitial
  /\ ecalls = <<>>

NextEnsure == EnsureCall /\ UNCHANGED <<chunkVars, normVars, ragVars, robotsVars, crawlVars>>

StartEnsure == InitEnsure /\ ChunkIdle /\ NormIdle /\ RagIdle /\ RobotsIdle /\ CrawlIdle /\ RetryIdle /\ BackoffIdle /\ DomainIdle /\ ServiceIdle /\ LateIdle
SpecEnsure == StartEnsure /\ [][NextEnsure]_vars

MaxCap == 3

InitRetry ==
  /\ rFlavor \in {"website", "github", "server"}
  /\ rCap \in 0..MaxCap
  /\ rAttempt = 0
  /\ rRequests = 0
  /\ rLast = ""
  /\ rStatus = 0
  /\ rRemaining = ""
  /\ rWait = 0
  /\ retPc = "running"
  /\ rResult = ""

NextRetry == RetryRequest /\ UNCHANGED <<chunkVars, normVars, ragVars, robotsVars, crawlVars>>

StartRetry == InitRetry /\ ChunkIdle /\ NormIdle /\ RagIdle /\ RobotsIdle /\ CrawlIdle /\ EnsureIdle /\ BackoffIdle /\ DomainIdle /\ ServiceIdle /\ LateIdle
SpecRetry == StartRetry /\ [][NextRetry]_vars

\* the headers of a response: retry-after absent or not an integer (<<>>) or
\* an integer number of seconds; the website scraper reads no other header
BackoffHeaders ==
  [retryAfter : {<<>>, <<-1>>, <<0>>, <<1>>, <<2>>, <<120>>, <<121>>},
   remaining : {"", "0", "5"},
   resetIn : {<<>>, <<-3>>, <<0>>, <<2>>, <<400>>}]

InitBackoff ==
  /\ boFlavor \in {"website", "github"}
  /\ boHeaders \in BackoffHeaders
  /\ boFlavor = "website" => (boHeaders.remaining = "" /\ boHeaders.resetIn = <<>>)
  /\ boAttempt = 0
  /\ boMs = 0
  /\ boPrev = 0

NextBackoff == BackoffCall /\ UNCHANGED <<chunkVars, normVars, ragVars, robotsVars, crawlVars>>

StartBackoff == InitBackoff /\ ChunkIdle /\ NormIdle /\ RagIdle /\ RobotsIdle /\ CrawlIdle /\ EnsureIdle /\ RetryIdle /\ DomainIdle /\ ServiceIdle /\ LateIdle
SpecBackoff == StartBackoff /\ [][NextBackoff]_vars

\* hosts and allow-list entries: a domain, a subdomain of it, a host that
\* only ends in its letters, a sibling, and the empty host of a URL without
\* authority
MaxAllowed == 2
DomainNames == {HostA, HostB, <<"t">>}
AskedHosts == {HostA, HostX, <<"s", ".", "a", ".", "t">>, <<"n", "a", ".", "t">>,
               <<"a", ".", "t", ".", "x">>, <<>>}

InitDomain ==
  /\ dHost \in AskedHosts
  /\ dAllowed \in SeqsUpTo(DomainNames, MaxAllowed)
  /\ dAccepted = FALSE
  /\ dpc = "call"

NextDomain == IsAllowedDomainCall /\ UNCHANGED <<chunkVars, normVars, ragVars, robotsVars, crawlVars>>

StartDomain == InitDomain /\ ChunkIdle /\ NormIdle /\ RagIdle /\ RobotsIdle /\ CrawlIdle /\ EnsureIdle /\ RetryIdle /\ BackoffIdle /\ ServiceIdle /\ LateIdle
SpecDomain == StartDomain /\ [][NextDomain]_vars

InitService ==
  /\ sStatus = "pending"
  /\ sError = ""
  /\ sCancel = FALSE
  /\ sObserved = FALSE
  /\ sPc = "idle"
  /\ sLog = <<"pending">>
  /\ sPages = 0
  /\ sRuns = 0

NextService ==
  \/ StartJob /\ UNCHANGED <<chunkVars, normVars, ragVars, robotsVars, crawlVars>>
  \/ OnProgress /\ UNCHANGED <<chunkVars, normVars, ragVars, robotsVars, crawlVars>>
  \/ ScrapeEnds /\ UNCHANGED <<chunkVars, normVars, ragVars, robotsVars, crawlVars>>
  \/ ExportEnds /\ UNCHANGED <<chunkVars, normVars, ragVars, robotsVars, crawlVars>>
  \/ CancelJob /\ UNCHANGED <<chunkVars, normVars, ragVars, robotsVars, crawlVars>>

StartService == InitService /\ ChunkIdle /\ NormIdle /\ RagIdle /\ RobotsIdle /\ CrawlIdle /\ EnsureIdle /\ RetryIdle /\ BackoffIdle /\ DomainIdle /\ LateIdle
SpecService == StartService /\ [][NextService]_vars

InitSitemap ==
  /\ smDocs \in [SitemapNames -> SitemapDocs]
  /\ smMax \in {<<>>} \cup {<<n>> : n \in 0..MaxUrlsCap}
  /\ smLines \in RobotsLineLists
  /\ smPc = "sitemap"
  /\ smTarget = "s0"
  /\ smStack = <<>>
  /\ smCut = FALSE
  /\ discovered = <<>>
  /\ smResult = <<>>
  /\ smBeat = FALSE

NextSitemap ==
  (SitemapResponse \/ RobotsSitemapResponse)
    /\ UNCHANGED <<chunkVars, normVars, ragVars, robotsVars, crawlVars>>

StartSitemap == InitSitemap /\ ChunkIdle /\ NormIdle /\ RagIdle /\ RobotsIdle /\ CrawlIdle /\ EnsureIdle /\ RetryIdle /\ BackoffIdle /\ DomainIdle /\ ServiceIdle /\ SemUnitIdle /\ ChunkTextIdle
\* every request completes
SpecSitemap == StartSitemap /\ [][NextSitemap]_vars /\ WF_vars(NextSitemap)

InitSemUnit ==
  /\ unMax \in 0..MaxPermits
  /\ unSem = Semaphore(unMax)
  /\ unHolders = {}

NextSemUnit ==
  \E c \in Callers :
    \/ (CallAcquire(c) /\ UNCHANGED <<chunkVars, normVars, ragVars, robotsVars, crawlVars>>)
    \/ (CallRelease(c) /\ UNCHANGED <<chunkVars, normVars, ragVars, robotsVars, crawlVars>>)

StartSemUnit == InitSemUnit /\ ChunkIdle /\ NormIdle /\ RagIdle /\ RobotsIdle /\ CrawlIdle /\ EnsureIdle /\ RetryIdle /\ BackoffIdle /\ DomainIdle /\ ServiceIdle /\ SitemapIdle /\ ChunkTextIdle
SpecSemUnit == StartSemUnit /\ [][NextSemUnit]_vars

\* a call with chunkSize >= 1 and 0 <= overlap < chunkSize
InitChunkText ==
  /\ ctText \in SeqsUpTo(Chars, MaxPageText)
  /\ ctSize \in 1..MaxChunkSize
  /\ ctOverlap \in 0..(ctSize - 1)
  /\ ctStart = 0
  /\ ctChunks = <<>>
  /\ ctIters = 0
  /\ ctPc = "call"

NextChunkText ==
  \/ (ChunkTextCall /\ UNCHANGED <<chunkVars, normVars, ragVars, robotsVars, crawlVars>>)
  \/ (ChunkTextIter /\ UNCHANGED <<chunkVars, normVars, ragVars, robotsVars, crawlVars>>)

StartChunkText == InitChunkText /\ ChunkIdle /\ NormIdle /\ RagIdle /\ RobotsIdle /\ CrawlIdle /\ EnsureIdle /\ RetryIdle /\ BackoffIdle /\ DomainIdle /\ ServiceIdle /\ SitemapIdle /\ SemUnitIdle
SpecChunkText == StartChunkText /\ [][NextChunkText]_vars

\* ------------------------------------------------------------ claims
\* C1: chunkTextToRag terminates for every text, targetTokens >= 1 and
\* overlapTokens >= 0: the packing loop runs at most as many iterations as
\* there are sentences.
C1_LoopBounded == iters <= Len(sentences)

\* C7: the k-th emitted chunk (zero-based) has ord = k and id = name:k, at
\* every point of the loop.
C7_OrdinalsDense ==
  /\ ord = Len(chunks)
  /\ \A k \in 1..Len(chunks) :
       /\ chunks[k].ord = k - 1
       /\ chunks[k].id = <<"name", k - 1>>

C7_Witness == Len(chunks) >= 3 /\ cpc = "loop"

\* C6: normalize is idempotent, normalize(normalize(x)) = normalize(x).
C6_Idempotent == npc = "twice" => twice = once

RECURSIVE Flatten(_)
\* the concatenation of a sequence of sequences
Flatten(ss) == IF ss = <<>> THEN <<>> ELSE Head(ss) \o Flatten(Tail(ss))

\* C5: within one buildRag run distinct chunks never share a point id: the
\* number of distinct ids sent to upsertPoints equals the number of chunks.
C5_DistinctPointIds ==
  rpc = "done" =>
    LET sent == Flatten(upserts)
    IN  Cardinality({sent[k].id : k \in 1..Len(sent)}) = chunkCount

\* lengths of the rules of a list that are prefixes of the path
MatchLens(rules, p) ==
  {Len(rules[k]) : k \in {n \in 1..Len(rules) : StartsWith(NormPath(p), rules[n])}}
SetMax(S) == CHOOSE x \in S : \A y \in S : y <= x
NonEmptyRules(rules) == SelectSeq(rules, LAMBDA r : r # <<>>)

\* C8 as stated: isAllowed answers true exactly when no Disallow rule is a
\* prefix of the path or the longest prefix-matching Allow rule is at least as
\* long as the longest prefix-matching Disallow rule.
C8_AsStated ==
  bpc = "answered" =>
    (allowed <=>
       \/ MatchLens(disallow, path) = {}
       \/ /\ MatchLens(allow, path) # {}
          /\ SetMax(MatchLens(allow, path)) >= SetMax(MatchLens(disallow, path)))

\* C8, amended: the same with the empty Disallow rules (a bare `Disallow:`
\* line) left out of the rule set; equal lengths allow.
C8_IsAllowed ==
  bpc = "answered" =>
    LET dis == NonEmptyRules(disallow)
    IN  (allowed <=>
           \/ MatchLens(dis, path) = {}
           \/ /\ MatchLens(allow, path) # {}
              /\ SetMax(MatchLens(allow, path)) >= SetMax(MatchLens(dis, path)))

\* the spec's scenario, and a tie: Disallow /a with Allow /a/b asked about
\* /a/b/x, and the same rule on both lists
C8_Witness ==
  /\ bpc = "answered"
  /\ allowed
  /\ disallow = <<<<"/", "a">>, <<"/", "a", "/", "b">>>>
  /\ allow = <<<<"/", "a", "/", "b">>>>
  /\ path = <<"/", "a", "/", "b", "/", "x">>

InFlight == {w \in Slots : wpc[w] \in {"hostwait", "locked", "delay", "request", "backoff"}}

\* C3: at every instant of scrape the workers that hold a permit of the
\* global semaphore, and with them the page fetches in flight, number at most
\* crawlerConfig.concurrency.
C3_PermitsBounded ==
  /\ InFlight \subseteq holders
  /\ Cardinality(holders) <= cfg.concurrency
C3_Witness ==
  /\ cfg.concurrency = 2
  /\ Cardinality({w \in Slots : wpc[w] = "request"}) = 2

\* C4: two HTTP request attempts that one run sends to the same host while
\* fetching pages, retries included, start at least delayMs apart.
C4_RequestSpacing == ~shortGap

\* C9: a worker has given back its permit and its host lock when it reports
\* progress, whatever its exit path; when scrape returns, the global
\* semaphore has all its permits and every host lock is free.
C9_ReleasedOnExit ==
  /\ lastReport.slot # 0 => ~lastReport.permit /\ ~lastReport.hostLock
  /\ mainPc = "returned" =>
       /\ sem = Semaphore(cfg.concurrency)
       /\ holders = {}
       /\ \A h \in DOMAIN hostLocks : hostLocks[h] = Semaphore(1) /\ lockOwner[h] = 0
C9_Witness ==
  /\ mainPc = "returned"
  /\ lastReport.exit = "robotsDisallowed"
  /\ processedCount >= 1
  /\ failedCount >= 2
  /\ DOMAIN hostLocks # {}

\* C10: once isCancelled() has answered true to the run, no page fetch sends
\* its first request any more, not even for an item of the current batch.
C10_NoFetchAfterCancel == [][cancelObserved => fetchCount' = fetchCount]_vars

\* C11: once embed or upsertPoints has thrown in buildRag, no further embed
\* or upsert call is made, the export handle is closed, and the job ends
\* failed with that error and is never completed.
C11_FailureAborts ==
  /\ (ragFailure # <<>> /\ ragFailure.kind \in {"embed", "upsert"}) =>
       /\ nEmbed = ragFailure.nEmbed
       /\ nUpsert = ragFailure.nUpsert
       /\ ~handleOpen
       /\ rpc = "failed"
       /\ jobStatus \in {"running", "failed"}
       /\ jobStatus = "failed" => jobError = ragFailure.kind
  /\ jobStatus = "completed" => ragFailure = <<>>
\* the upsert of the first of two files threw after two embeds; the second
\* file was never touched
C11_Witness ==
  /\ jobStatus = "failed"
  /\ ragFailure # <<>>
  /\ ragFailure.kind = "upsert"
  /\ nEmbed >= 2
  /\ fidx < Len(files)
\* the creation requests of the first n calls
RECURSIVE PutsOf(_, _)
PutsOf(calls, n) == IF n = 0 THEN 0 ELSE PutsOf(calls, n - 1) + calls[n].puts

C12_PutOnlyAfter404 ==
  \A k \in 1..Len(ecalls) :
    /\ ecalls[k].puts = 1 => ecalls[k].status = 404
    /\ ecalls[k].status = 200 => (ecalls[k].puts = 0 /\ ~ecalls[k].threw)
    /\ ecalls[k].status \notin {200, 404} => (ecalls[k].puts = 0 /\ ecalls[k].threw)

C13_AppendedOnce == \A p \in DOMAIN appends : appends[p] <= 1

C13_Witness ==
  /\ mainPc = "returned"
  /\ enqCalls["p3"] >= 3
  /\ appends["p3"] = 1
  /\ <<"p3", "">> \in processedUrls

\* C14: links found on a fetched item are enqueued at the item's depth + 1
\* only when the item's depth is below maxDepth, with the seeds at the depth
\* of the scenario: with maxDepth = 1 and one seed, the seed's in-domain link
\* (p2, linked from the seed p1) has been enqueued once the seed is fetched.
C14_SeedLinkEnqueued ==
  (/\ cfg # <<>>
   /\ cfg.maxDepth = 1 /\ Len(cfg.seeds) = 1 /\ ~cfg.followSitemaps
   /\ ~cancelRequested
   /\ \E k \in 1..Len(results) : results[k] = cfg.seeds[1])
  => <<"p2", "">> \in seenQueued

\* C15: the processed-page count never exceeds crawlerConfig.maxPages: for
\* every concurrency >= 1 the returned list has at most maxPages entries.
C15_AtMostMaxPages ==
  (cfg # <<>> /\ cfg.concurrency >= 1) =>
    (processedCount <= cfg.maxPages /\ Len(results) <= cfg.maxPages)
\* C16: a retrying fetch sends at most cap + 1 requests and returns without
\* throwing.  _getWithRetry (cap = maxRetries) returns the last response when
\* the last of its cap + 1 requests ended in a transient status and null when
\* it ended in a timeout or a connection error; fetchWithRetry (cap =
\* retries) returns null when its last request failed.
C16_RetryBounded ==
  /\ rRequests <= rCap + 1
  /\ retPc \in {"idle", "running", "returned"}
  /\ retPc = "running" => rRequests <= rCap
  /\ (retPc = "returned" /\ rLast \notin {"ok", "status"} /\ rFlavor # "server") =>
       /\ rRequests = rCap + 1
       /\ rLast = "transient" => rResult = "response"
       /\ rLast \in {"timeout", "error"} => rResult = "null"
  /\ (retPc = "returned" /\ rLast # "ok" /\ rFlavor = "server") =>
       (rRequests = rCap + 1 /\ rResult = "null")

C16_Witness ==
  /\ retPc = "returned" /\ rFlavor = "github" /\ rCap = MaxRetries
  /\ rRequests = MaxRetries + 1 /\ rLast = "timeout" /\ rResult = "null"
\* C17: when retry-after parses as an integer s, _computeBackoffMs returns
\* s * 1000 clamped to [1000, 120000] for every attempt, before the
\* rate-limit path and the exponential path are looked at; retry-after 2
\* gives 2000 ms.
C17_RetryAfterFirst ==
  (boAttempt >= 1 /\ boHeaders.retryAfter # <<>>) =>
    LET s == boHeaders.retryAfter[1] IN
      /\ boMs = (IF s * 1000 < 1000 THEN 1000 ELSE IF s * 1000 > 120000 THEN 120000 ELSE s * 1000)
      /\ s = 2 => boMs = 2000

C17_Witness ==
  /\ boFlavor = "github" /\ boAttempt = 3 /\ boMs = 2000
  /\ boHeaders.retryAfter = <<2>> /\ boHeaders.remaining = "0" /\ boHeaders.resetIn = <<400>>

\* the delays of attempts 1..10 on the exponential path
BackoffTable == <<800, 1900, 4400, 10000, 10400, 15000, 15000, 15000, 15000, 15000>>

\* C18: with no retry-after and no rate-limit header, _computeBackoffMs for
\* 1 <= attempt <= 10 is base + floor(base * 0.3) * ((attempt mod 5) + 1)
\* with base = 500 * 2^(attempt - 1), clamped to [500, 15000], and both the
\* base and the delay are non-decreasing in attempt.
C18_Exponential ==
  (/\ boAttempt >= 1 /\ boAttempt <= 10
   /\ boHeaders.retryAfter = <<>> /\ boHeaders.remaining = "" /\ boHeaders.resetIn = <<>>) =>
    LET base == 500 * (2 ^ (boAttempt - 1))
        raw == base + ((base * 3) \div 10) * ((boAttempt % 5) + 1)
    IN  /\ boMs = (IF raw < 500 THEN 500 ELSE IF raw > 15000 THEN 15000 ELSE raw)
        /\ boMs = BackoffTable[boAttempt]
        /\ boPrev <= boMs
        /\ boAttempt >= 2 => 500 * (2 ^ (boAttempt - 2)) <= base

C18_Witness ==
  /\ boFlavor = "website" /\ boAttempt = 5 /\ boPrev = 10000 /\ boMs = 10400
  /\ boHeaders.retryAfter = <<>>
\* host is some prefix, then a dot, then the allowed domain
IsSubdomainOf(host, allowedDomain) ==
  \E n \in 0..Len(host) : host = SubSeq(host, 1, n) \o <<".">> \o allowedDomain

\* C19: with a non-empty allow-list, _isAllowedDomain accepts exactly when
\* the host equals an allowed domain or ends with "." followed by an allowed
\* domain: the subdomain s.a.t of a.t is accepted, na.t is not accepted for a.t.
C19_DomainOrSubdomain ==
  (dpc = "returned" /\ dAllowed # <<>>) =>
    /\ dAccepted <=> \E k \in 1..Len(dAllowed) :
                       dHost = dAllowed[k] \/ IsSubdomainOf(dHost, dAllowed[k])
    /\ (dHost = <<"s", ".", "a", ".", "t">> /\ dAllowed = <<HostA>>) => dAccepted
    /\ (dHost = <<"n", "a", ".", "t">> /\ dAllowed = <<HostA>>) => ~dAccepted

C19_Witness ==
  /\ dpc = "returned" /\ dHost = <<"s", ".", "a", ".", "t">>
  /\ dAllowed = <<HostB, HostA>> /\ dAccepted
\* C20: a run goes idle -> running -> one of completed, cancelled, failed: it
\* enters running exactly once, ends in exactly one terminal state, a run
\* that observed the cancellation ends in a cancelled state distinct from
\* failed, and no transition leaves a terminal state.
C20_Lifecycle ==
  /\ \A k \in 1..Len(sLog) :
       /\ sLog[k] = "running" => (k = 2 /\ sLog[1] = "pending")
       /\ sLog[k] \in {"completed", "cancelled", "failed"} => (k = Len(sLog) /\ k = 3)
  /\ sPc = "returned" => sStatus \in {"completed", "cancelled", "failed"}
  /\ (sPc = "returned" /\ sObserved) => (sStatus = "cancelled" /\ sStatus # "failed")
\* C21: over the life of a server job the persisted progress never
\* decreases, is within 0..70 while scrape runs and within 70..99 while
\* buildRag runs, and is 100 only when the job's status is completed.
C21_ProgressRanges ==
  /\ rpc = "scrape" => (jobProgress >= 0 /\ jobProgress <= 70)
  /\ (jobStatus = "running" /\ rpc \in {"ensure", "file", "chunking", "embed", "upsert", "done"})
       => (jobProgress >= 70 /\ jobProgress <= 99)
  /\ jobProgress = 100 => jobStatus = "completed"

C21_Progress == []C21_ProgressRanges /\ [][jobProgress' >= jobProgress]_vars

C21_Witness ==
  /\ jobStatus = "completed" /\ jobProgress = 100
  /\ jobType = "docs" /\ jobMaxPages > Len(files) /\ Len(files) = 2
  /\ \E k \in 1..Len(progress) : progress[k] = 99
  /\ \E k \in 1..Len(progress) : progress[k] > 70 /\ progress[k] < 99
\* C22: a failure for one URL (no response after the retries, a status other
\* than 200, robots or any exception in the worker) does not stop the crawl:
\* scrape returns only when the queue is empty, maxPages is reached or
\* cancellation was requested, every step keeps the pages collected so far,
\* and each failure is counted once.
C22_ScrapeGoesOn ==
  mainPc = "returned" =>
    (queue = <<>> \/ processedCount >= cfg.maxPages \/ cancelRequested)

C22_FailureIsolated ==
  /\ []C22_ScrapeGoesOn
  /\ [][mainPc # "idle" =>
          /\ Len(results') >= Len(results)
          /\ SubSeq(results', 1, Len(results)) = results
          /\ failedCount' \in {failedCount, failedCount + 1}]_vars

C22_Witness ==
  /\ mainPc = "returned" /\ cfg.concurrency = 1
  /\ failedCount >= 1 /\ Len(results) >= 2
  /\ lastReport.exit = "success"
\* C23: the robots-rule cache and the per-host last-request timestamps are
\* scoped to one run: at the step that starts a WebsiteScraper.scrape run
\* they hold no entry written by validate or by an earlier run on the same
\* WebsiteScraper.
C23_CachesEmptyAtStart ==
  [][(mainPc = "idle" /\ mainPc' # "idle") =>
       (robotsCache' = <<>> /\ lastAge' = <<>>)]_vars
\* C24: in every iteration of chunkTextToRag's loop that does not end the
\* loop, with i the chunk's start and j its exclusive end, the next start i'
\* satisfies i < i' <= j - 1.
C24_StartAdvances ==
  lastIJ # <<>> => (lastIJ[1] < lastIJ[3] /\ lastIJ[3] <= lastIJ[2] - 1)

RECURSIVE TokenSum(_, _, _)
\* the sum of ceil(length / 4) over the sentences from..to-1 (0-based)
TokenSum(ss, from, to) ==
  IF from >= to THEN 0
  ELSE (ss[from + 1] \div 4) + (IF ss[from + 1] % 4 = 0 THEN 0 ELSE 1)
       + TokenSum(ss, from + 1, to)

\* C25: every chunk emitted by chunkTextToRag is exactly one sentence, or
\* its per-sentence token estimates (ceil(length / 4) each) add up to at most
\* targetTokens; no chunk is empty of sentences.
C25_ChunkWithinTarget ==
  \A k \in 1..Len(chunks) :
    /\ chunks[k].to > chunks[k].from
    /\ \/ chunks[k].to = chunks[k].from + 1
       \/ TokenSum(sentences, chunks[k].from, chunks[k].to) <= targetTokens

\* a chunk of two or more sentences filled to the target, which the next
\* sentence did not fit into, and a chunk of one sentence
C25_Witness ==
  /\ \E k \in 1..Len(chunks) :
       /\ chunks[k].to >= chunks[k].from + 2
       /\ chunks[k].to < Len(sentences)
       /\ TokenSum(sentences, chunks[k].from, chunks[k].to) = targetTokens
  /\ \E k \in 1..Len(chunks) : chunks[k].to = chunks[k].from + 1

\* ---- C26
\* the workers between `await hostLock.acquire()` returning and
\* `hostLock.release()` in _scrapePage, for one host
InHostLock(h) ==
  {w \in Slots : wpc[w] \in {"locked", "delay", "request", "backoff"} /\ WHost(w) = h}

\* C26: for each host at most one worker at a time is between acquiring and
\* releasing that host's lock, and it is the one the lock was granted to, so
\* two page requests to one host never overlap; a worker waits for a host
\* lock only while another worker holds the lock of that same host, so
\* workers for different hosts are not serialized against each other
C26_HostLockExclusive ==
  /\ \A h \in Hosts :
       /\ Cardinality(InHostLock(h)) <= 1
       /\ \A w \in InHostLock(h) : h \in DOMAIN lockOwner /\ lockOwner[h] = w
  /\ \A w \in Slots :
       wpc[w] = "hostwait" =>
         \E x \in Slots \ {w} : x \in InHostLock(WHost(w))

\* one worker's request is in flight while another worker waits for the lock
\* of the same host
C26_Witness ==
  \E w, x \in Slots :
    /\ w # x
    /\ wpc[w] = "request"
    /\ wpc[x] = "hostwait"
    /\ WHost(w) = WHost(x)

\* two requests are in flight at once, to different hosts
C26_DifferentHostsOverlap ==
  \E w, x \in Slots :
    /\ wpc[w] = "request"
    /\ wpc[x] = "request"
    /\ WHost(w) # WHost(x)

C27_Forbidden ==
  /\ rStatus = 403 /\ rRequests = 1 /\ retPc = "returned"
  /\ (rFlavor = "github" /\ rRemaining = "7") \/ (rFlavor = "website" /\ rRemaining = "0")

\* ---- C28
\* C28: in _computeBackoffMs of the GitHub scraper, when no retry-after
\* parses, x-ratelimit-remaining is 0 and x-ratelimit-reset parses, the delay
\* is (reset - now) * 1000 clamped to [1000, 300000] for every value of
\* reset, a reset time that is not in the future included, and never the
\* exponential delay
C28_RateLimitDelay ==
  (/\ boFlavor = "github" /\ boAttempt >= 1
   /\ boHeaders.retryAfter = <<>> /\ boHeaders.remaining = "0" /\ boHeaders.resetIn # <<>>) =>
    LET deltaMs == boHeaders.resetIn[1] * 1000
    IN  boMs = (IF deltaMs < 1000 THEN 1000 ELSE IF deltaMs > 300000 THEN 300000 ELSE deltaMs)

\* ---- C29
\* the rules cached after a failed robots.txt request allow every path
C29_AllowAllAllows ==
  \A p \in Pages : isAllowed(AllowAll.allow, AllowAll.disallow, PathOf(p))

\* worker w ends in this step because robots.txt disallows its URL
RobotsExit(w) ==
  /\ wpc[w] \in {"start", "robots"}
  /\ wpc'[w] = "done"
  /\ lastReport'.slot = w
  /\ lastReport'.exit = "robotsDisallowed"

\* C29: when the robots.txt request returns a status other than 200 or
\* throws, the rules kept for the host allow every path, so
\* _isAllowedByRobots answers true; a worker gives its URL up as disallowed
\* only under rules parsed from a robots.txt that was received, never under
\* the rules left by a failed request
C29_RobotsFailureAllows ==
  /\ []C29_AllowAllAllows
  /\ [][\A w \in Slots :
          RobotsExit(w) =>
            (WHost(w) \in DOMAIN robotsCache' /\ robotsCache'[WHost(w)] # AllowAll)]_vars

\* the robots.txt request of host a.t failed, and the page its robots.txt
\* disallows was requested
C29_Witness ==
  /\ cfg.respectRobots
  /\ HostA \in DOMAIN robotsCache /\ robotsCache[HostA] = AllowAll
  /\ ~isAllowed(RobotsTxt(HostA).allow, RobotsTxt(HostA).disallow, PathOf("p4"))
  /\ fetchCount["p4"] >= 1

\* ---- C30
\* the page whose worker has just ended because robots.txt disallows it
DeniedNow(p) ==
  /\ lastReport.exit = "robotsDisallowed"
  /\ wpc[lastReport.slot] = "done"
  /\ wurl[lastReport.slot][1] = p

InQueue(p) == \E k \in 1..Len(queue) : queue[k].url[1] = p

\* C30: with respectRobots enabled, a queued URL whose path the robots rules
\* disallow is given up before _scrapePage: the step adds exactly one to the
\* failed count and leaves the processed count, the result list, the set of
\* processed URLs and the queue as they are; the URL has not been requested
\* and, from then on in that run, never is and never is in the queue again
C30_DisallowedDropped ==
  /\ [][\A w \in Slots :
          RobotsExit(w) =>
            /\ cfg.respectRobots
            /\ ~isAllowed(robotsCache'[WHost(w)].allow, robotsCache'[WHost(w)].disallow, WPath(w))
            /\ failedCount' = failedCount + 1
            /\ processedCount' = processedCount
            /\ results' = results
            /\ processedUrls' = processedUrls
            /\ wurl[w] \notin processedUrls
            /\ queue' = queue
            /\ fetchCount' = fetchCount]_vars
  /\ \A p \in Pages : [](DeniedNow(p) => [](fetchCount[p] = 0 /\ ~InQueue(p)))

\* the run has ended; /a/b of a.t was queued, was found disallowed and was
\* never requested, while pages were collected
C30_Witness ==
  /\ mainPc = "returned"
  /\ cfg.respectRobots
  /\ lastReport.exit = "robotsDisallowed"
  /\ wurl[lastReport.slot][1] = "p4"
  /\ appends["p4"] = 1
  /\ fetchCount["p4"] = 0
  /\ failedCount >= 1
  /\ Len(results) >= 1

\* ---- C31
\* C31: a page whose request was in flight when cancellation was requested
\* and that arrives successfully afterwards is discarded: it is not added to
\* the results, the processed count stays, and none of its links is enqueued
C31_InFlightDiscarded ==
  [][\A w \in cancelCaught :
       (/\ wpc[w] = "request"
        /\ wpc'[w] = "done"
        /\ lastReport'.slot = w
        /\ lastReport'.exit = "success") =>
         /\ results' = results
         /\ processedCount' = processedCount
         /\ queue' = queue
         /\ seenQueued' = seenQueued]_vars

\* the links of such a page are not enqueued
C31_NoExpansion ==
  [][\A w \in cancelCaught :
       (wpc[w] = "request" /\ wpc'[w] = "done") =>
         (queue' = queue /\ seenQueued' = seenQueued)]_vars

\* ---- C32
\* the position of the first occurrence of x in list, 0 when there is none
FirstAt(list, x) ==
  IF \E k \in 1..Len(list) : list[k] = x
  THEN CHOOSE k \in 1..Len(list) : list[k] = x /\ \A j \in 1..(k - 1) : list[j] # x
  ELSE 0

\* C32: for every set of sitemap documents and every bound maxUrls, the list
\* discovered never holds more than maxUrls entries, and _findSitemapUrls
\* returns the distinct discovered URLs in the order of their first
\* discovery, without duplicates, at most maxUrls of them
C32_SitemapUrls ==
  /\ smMax # <<>> => Len(discovered) <= smMax[1]
  /\ smPc = "returned" =>
       /\ \A k \in 1..Len(smResult) : FirstAt(discovered, smResult[k]) > 0
       /\ \A j, k \in 1..Len(smResult) :
            j < k => FirstAt(discovered, smResult[j]) < FirstAt(discovered, smResult[k])
       /\ smMax # <<>> => Len(smResult) <= smMax[1]
       /\ Len(smResult) =
            Cardinality({discovered[k] : k \in 1..Len(discovered)})

\* two sitemaps were read, the second one found through robots.txt; a URL
\* listed twice is returned once, and the list stopped growing at the bound
C32_Witness ==
  /\ smPc = "returned"
  /\ smMax = <<2>>
  /\ discovered = <<"u2", "u2">>
  /\ smResult = <<"u2">>
  /\ smDocs["s1"] = [index |-> FALSE, locs |-> <<"u2", "u1">>]
  /\ smLines = <<"-", "s1">>

\* ---- C38
\* C38: _findSitemapUrls terminates for every finite set of sitemap documents
\* whose requests complete, sitemap index documents that list themselves or
\* each other and contain no page URL included (a run the model does not
\* follow to its end counts as ended)
C38_SitemapsTerminate == <>(smPc \in {"returned", "unknown"})

\* C33: every upsertPoints call of buildRag carries between 1 and 64 points,
\* and once a run has ended without failure the calls, laid end to end, are
\* the points of all chunks in chunk order, each point in one call only.
C33_UpsertBatches ==
  /\ \A k \in 1..Len(upserts) : Len(upserts[k]) >= 1 /\ Len(upserts[k]) <= 64
  /\ rpc = "upsert" =>
       \A b \in 1..Len(batch(points, BatchSize)) :
         Len(batch(points, BatchSize)[b]) \in 1..64
  /\ (rpc = "done" /\ ragFailure = <<>>) =>
       /\ Flatten(upserts) = exported
       /\ Len(exported) = chunkCount
       /\ \A a, b \in 1..Len(exported) : exported[a] = exported[b] => a = b

\* a run without failure whose first file gave 65 chunks, sent as a call of 64
\* points and a call of one, before the second file's two points
C33_Witness ==
  /\ rpc = "done"
  /\ ragFailure = <<>>
  /\ files = <<LongText, <<1600, 1600, 1600>>>>
  /\ Len(upserts) = 3
  /\ Len(upserts[1]) = 64
  /\ Len(upserts[2]) = 1
  /\ Len(upserts[3]) = 2

\* C34: when the write of one chunk's JSONL line fails (the point has been
\* pushed, the line has not been written), buildRag skips the line and goes on
\* with the chunk loop: it has not failed, the handle stays open and the
\* point stays among those to be upserted.
C34_WriteFailureSkipped ==
  [][(rpc = "embed" /\ cix' = cix + 1 /\ Len(points') = Len(points) + 1
        /\ exported' = exported)
       => (rpc' = "embed" /\ ragFailure' = ragFailure /\ handleOpen' = handleOpen)]_vars

\* C35: the progress buildRag reports counts files, not chunks: when the k-th
\* of n files is done and it had a chunk to report, the last value reported is
\* 70 + floor(29 * k / n), and 99 is reported only when the last chunk of the
\* last file is done.
C35_ProgressByFiles ==
  /\ (rpc = "upsert" /\ Len(chunks) > 0) =>
       progress[Len(progress)] = 70 + ((29 * fidx) \div Len(files))
  /\ (progress # <<>> /\ progress[Len(progress)] = 99) =>
       (fidx = Len(files) /\ (rpc = "embed" => cix = Len(chunks)))

C37_SemaphoreCounts ==
  /\ [](/\ unSem.count >= 0
        /\ unSem.count <= unMax
        /\ Cardinality(unHolders) + unSem.count = unMax
        /\ (unSem.waitQueue # <<>> => unSem.count = 0)
        /\ Waiting(unSem) \cap unHolders = {})
  /\ [][(unSem.waitQueue # <<>> /\ Len(unSem.waitQueue') < Len(unSem.waitQueue))
          => /\ unSem.count' = unSem.count
             /\ Head(unSem.waitQueue) \in unHolders'
             /\ unSem.waitQueue' = Tail(unSem.waitQueue)]_vars

\* both permits of a Semaphore(2) are held, one of them by a caller that
\* waited for it, and two callers wait in the order of their calls
C37_Witness ==
  /\ unMax = 2
  /\ unSem.count = 0
  /\ unHolders = {1, 3}
  /\ unSem.waitQueue = <<4, 2>>

\* C39: _chunkText terminates for every text, chunkSize >= 1 and
\* 0 <= overlap < chunkSize: every iteration of its loop that does not end
\* the call moves start strictly forward, so the loop runs at most as many
\* iterations as the text has characters.
C39_StartMovesForward ==
  /\ [](ctIters <= Len(ctText))
  /\ [][(ctPc = "loop" /\ ctPc' = "loop" /\ ctIters' = ctIters + 1)
          => ctStart' > ctStart]_vars

\* C40: a job for which cancelJob was called while it was running (during
\* the scrape or during the exports) never has status completed.
C40_CancelledNeverCompletes == sCancel => sStatus # "completed"

====
